---- MODULE Spec2Model ----
(***************************************************************************)
(* A model of WAVM's type interning (Include/IR/Types.h) and of its WAST   *)
(* disassembler (Source/WAST/Print.cpp).                                   *)
(*                                                                         *)
(* The module holds several state machines over one set of variables:      *)
(*   SpecIntern  the canonical registry of TypeTuple and FunctionType      *)
(*   SpecNames   one NameScope instance fed candidate names                *)
(*   SpecPrint   WAST::print: naming pass, rendering, indentation          *)
(*   SpecIndent  expandIndentation scanning one buffer                     *)
(*   SpecModule  WAST::print on modules with every group of declarations   *)
(*   SpecBody    printFunctionBody decoding one operator stream            *)
(*   SpecLinking printLinkingSection decoding one linking section          *)
(*   SpecTypes   the pure functions of Types.h and escapeString            *)
(* Text is modelled as a sequence of one-character strings.                *)
(***************************************************************************)
EXTENDS Integers, Sequences, FiniteSets, TLC

VARIABLES
    \* ---- type interner (Types.h) ----
    tupleImpls,     \* heap of TypeTuple::Impl, the address of an Impl is its index
    tupleSet,       \* the addresses the canonical TypeTuple registry holds
    funcImpls,      \* heap of FunctionType::Impl
    funcSet,        \* the addresses the canonical FunctionType registry holds
    tupleMutex,     \* 0, or the thread inside the TypeTuple registration path
    funcMutex,      \* 0, or the thread inside the FunctionType registration path
    pc,             \* per thread: its position in getUniqueImpl
    localImpl,      \* per thread: the Impl built from the call's arguments
    issuedTuples,   \* history: [elems, handle] for every TypeTuple returned
    issuedFuncs,    \* history: [results, params, handle] for every FunctionType
    roundTrips,     \* history: [orig, enc, back] for every encode/decode
    numCalls,       \* number of registrations started
    \* ---- one NameScope instance (Print.cpp) ----
    scope,          \* [sigil, nameSet, nameToUniqueIndexMap]
    assigned,       \* history: [candidate, name, before] for every map call
    \* ---- one call of expandIndentation (Print.cpp) ----
    scan,           \* [paddedInput, next, indentDepth, result, status]
    \* ---- WAST::print (Print.cpp) ----
    module,         \* the module being rendered, with its disassembly names
    pcP,            \* per caller: "idle", "context", "printed" or "fatal"
    ctxString,      \* per caller: the local string of WAST::print
    ctxNames,       \* per caller: ModulePrintContext::names
    ctxScope,       \* per caller: the constructor's globalNameScope as it was left
    outputs,        \* history: the texts WAST::print returned
    numRenders,     \* number of calls of WAST::print started
    \* ---- one call of printFunctionBody (Print.cpp) ----
    fctx,           \* the FunctionPrintContext
    pcB,            \* "constructed", "decoding" or "returned"
    decoded,        \* history: the operators the decoder has given out
    openLabels,     \* history: per frame, its opening operator and printed label
    \* ---- one call of printLinkingSection (Print.cpp) ----
    undefined,      \* what undefined behaviour yields in this build and run
    linkingSection, \* the user section given: [name, data]
    pcL,            \* "given", "returned" or "crashed"
    linked,         \* the decode as printLinkingSection left it
    \* ---- pure functions (Types.h, Print.cpp) ----
    applied         \* history: [function, args, result] for every application

internVars == <<tupleImpls, tupleSet, funcImpls, funcSet, tupleMutex, funcMutex,
                pc, localImpl, issuedTuples, issuedFuncs, roundTrips,
                numCalls>>

nameVars == <<scope, assigned>>

indentVars == <<scan>>

printVars == <<module, pcP, ctxString, ctxNames, ctxScope, outputs, numRenders>>

bodyVars == <<fctx, pcB, decoded, openLabels>>

linkVars == <<undefined, linkingSection, pcL, linked>>

typeVars == <<applied>>

vars == <<internVars, nameVars, indentVars, printVars, bodyVars, linkVars, typeVars>>

outsideIntern == <<nameVars, indentVars, printVars, bodyVars, linkVars, typeVars>>
outsideNames == <<internVars, indentVars, printVars, bodyVars, linkVars, typeVars>>
outsideIndent == <<internVars, nameVars, printVars, bodyVars, linkVars, typeVars>>
outsidePrint == <<internVars, nameVars, indentVars, bodyVars, linkVars, typeVars>>
outsideBody == <<internVars, nameVars, indentVars, printVars, linkVars, typeVars>>
outsideLinking == <<internVars, nameVars, indentVars, printVars, bodyVars, typeVars>>
outsideTypes == <<internVars, nameVars, indentVars, printVars, bodyVars, linkVars>>

\* ------------------------------------------------------------------------
\* Bounds of the model
\* ------------------------------------------------------------------------
MaxLen == 1
MaxCalls == 4
NumThreads == 2
MaxNames == 4
MaxBuf == 6
MaxDecls == 2
MaxRenders == 2
MaxItems == 3
MaxOps == 4
MaxBytes == 3
MaxSize == 2
Threads == 1..NumThreads

\* ------------------------------------------------------------------------
\* IR::ValueType
\* ------------------------------------------------------------------------
ValueType == {"any", "i32", "i64", "f32", "f64", "v128"}

ValueTypeCode ==
    [any |-> 0, i32 |-> 1, i64 |-> 2, f32 |-> 3, f64 |-> 4, v128 |-> 5]

InputElems == {"i32", "i64"}

TupleInputs == UNION {[1..n -> InputElems] : n \in 0..MaxLen}

\* ------------------------------------------------------------------------
\* TypeTuple
\* ------------------------------------------------------------------------
RECURSIVE HashElems(_)
HashElems(elems) ==
    IF elems = <<>> THEN 0
    ELSE (ValueTypeCode[Head(elems)] + HashElems(Tail(elems))) % 2

TypeTuple_Impl(inNumElems, inElems) ==
    [hash |-> HashElems(inElems), numElems |-> inNumElems, elems |-> inElems]

TypeTuple(inImpl) == [impl |-> inImpl]

TypeTuple_getHash(t) == tupleImpls[t.impl].hash
TypeTuple_size(t) == tupleImpls[t.impl].numElems
TypeTuple_elems(t) == tupleImpls[t.impl].elems

TypeTupleEq_ByHash(left, right) ==
    tupleImpls[left.impl].hash = tupleImpls[right.impl].hash

TypeTupleEq(left, right) == left.impl = right.impl

\* The registry's key comparison: equal hash and identical contents.
\* The lookup gives the address found, or 0 (no entry).
TupleKeysEqual(a, b) ==
    /\ a.hash = b.hash
    /\ a.numElems = b.numElems
    /\ a.elems = b.elems

TupleLookup(impl) ==
    LET hits == {a \in tupleSet : TupleKeysEqual(tupleImpls[a], impl)}
    IN IF hits = {} THEN 0 ELSE CHOOSE a \in hits : \A b \in hits : a <= b

MutexFree_NoWait(mutex) == TRUE

\* Lock<Platform::Mutex>: the caller waits until no thread holds the mutex.
MutexFree(mutex) == mutex = 0

HeapInstall_Reuse(heap, impl) ==
    IF heap = <<>> THEN Append(heap, impl) ELSE [heap EXCEPT ![Len(heap)] = impl]

\* A new Impl is allocated at a fresh address; no earlier Impl is touched.
HeapInstall(heap, impl) == Append(heap, impl)

\* ------------------------------------------------------------------------
\* FunctionType
\* ------------------------------------------------------------------------
\* The hash combines both sub-hashes and their order.
HashPair(resultsHash, paramsHash) == (2 * resultsHash + paramsHash) % 3

FunctionType_Impl(inResults, inParams) ==
    [hash |-> HashPair(TypeTuple_getHash(inResults), TypeTuple_getHash(inParams)),
     results |-> inResults,
     params |-> inParams]

FunctionType(inImpl) == [impl |-> inImpl]

FunctionType_results(f) == funcImpls[f.impl].results
FunctionType_params(f) == funcImpls[f.impl].params
FunctionType_getHash(f) == funcImpls[f.impl].hash

FunctionTypeEq_ByHash(left, right) ==
    funcImpls[left.impl].hash = funcImpls[right.impl].hash

FunctionTypeEq(left, right) == left.impl = right.impl

getEncoding_Hash(f) == [impl |-> funcImpls[f.impl].hash]

\* reinterpret_cast<Uptr>(impl): the address as an integer.
getEncoding(f) == [impl |-> f.impl]

\* reinterpret_cast<const Impl*>(encoding.impl)
FunctionType_fromEncoding(encoding) == FunctionType(encoding.impl)

FuncKeysEqual(a, b) ==
    /\ a.hash = b.hash
    /\ TypeTupleEq(a.results, b.results)
    /\ TypeTupleEq(a.params, b.params)

FuncLookup(impl) ==
    LET hits == {a \in funcSet : FuncKeysEqual(funcImpls[a], impl)}
    IN IF hits = {} THEN 0 ELSE CHOOSE a \in hits : \A b \in hits : a <= b

HeldTuples == {x.handle : x \in issuedTuples}
HeldFuncs == {x.handle : x \in issuedFuncs}

\* ------------------------------------------------------------------------
\* Text: a string is a sequence of one-character strings
\* ------------------------------------------------------------------------
Digit == <<"0", "1", "2", "3", "4", "5", "6", "7", "8", "9">>

\* std::to_string of an unsigned integer: its decimal digits.
RECURSIVE to_string(_)
to_string(n) ==
    IF n < 10 THEN <<Digit[n + 1]>>
    ELSE to_string(n \div 10) \o <<Digit[(n % 10) + 1]>>

\* ------------------------------------------------------------------------
\* Output text. An element of a text is one byte, or the run of printable
\* characters of one string literal of the source; a newline and the bytes
\* of a marker are always elements of their own. The bytes 0xE0, 0x01, 0x02
\* and 0x00 are written "xE0", "x01", "x02" and "x00".
\* ------------------------------------------------------------------------
INDENT_STRING == <<"xE0", "x01">>
DEDENT_STRING == <<"xE0", "x02">>

spacesPerIndentLevel == 2

Spaces_Tab(n) == IF n > 0 THEN <<"\t">> ELSE <<>>

Spaces(n) == [i \in 1..n |-> " "]

\* The concatenation of the texts a for loop appends, one per iteration.
Flatten(texts) ==
    LET f[i \in 0..Len(texts)] == IF i = 0 THEN <<>> ELSE f[i - 1] \o texts[i]
    IN f[Len(texts)]

\* ------------------------------------------------------------------------
\* Bytes and characters. Binary data is a sequence of byte values; the
\* characters of a std::string are one-character strings.
\* ------------------------------------------------------------------------
\* The printable characters 0x20 .. 0x7e in order; 0x60 is written "x60".
Ascii ==
    <<" ", "!", "\"", "#", "$", "%", "&", "'", "(", ")", "*", "+", ",", "-", ".", "/",
      "0", "1", "2", "3", "4", "5", "6", "7", "8", "9", ":", ";", "<", "=", ">", "?",
      "@", "A", "B", "C", "D", "E", "F", "G", "H", "I", "J", "K", "L", "M", "N", "O",
      "P", "Q", "R", "S", "T", "U", "V", "W", "X", "Y", "Z", "[", "\\", "]", "^", "_",
      "x60", "a", "b", "c", "d", "e", "f", "g", "h", "i", "j", "k", "l", "m", "n", "o",
      "p", "q", "r", "s", "t", "u", "v", "w", "x", "y", "z", "{", "|", "}", "~">>

\* The character a byte value is: a byte that is not printable is written
\* "x" and its two hex digits, but for the tabulator and the newline.
HexUpper == <<"0", "1", "2", "3", "4", "5", "6", "7", "8", "9", "A", "B", "C", "D", "E", "F">>

CharOfByte(b) ==
    CASE b >= 32 /\ b <= 126 -> Ascii[b - 31]
      [] b = 9 -> "\t"
      [] b = 10 -> "\n"
      [] OTHER -> "x" \o HexUpper[(b \div 16) + 1] \o HexUpper[(b % 16) + 1]

\* The byte values, and the byte value of each character.
ByteValues == 0..255

ByteTable ==
    [c \in {CharOfByte(b) : b \in ByteValues} |->
        CHOOSE b \in ByteValues : CharOfByte(b) = c]

ByteOfChar(c) == ByteTable[c]

CharsOfBytes(bytes) == [i \in 1..Len(bytes) |-> CharOfByte(bytes[i])]

\* nibbleToHexChar
nibbleToHexChar(value) ==
    IF value < 10 THEN Digit[value + 1]
    ELSE <<"a", "b", "c", "d", "e", "f">>[value - 10 + 1]

\* One iteration of the loop of escapeString on the character c.
escapeChar_AllHex(c) ==
    IF ByteOfChar(c) < 32 \/ ByteOfChar(c) > 126 \/ c = "\\" \/ c = "\""
    THEN <<"\\", nibbleToHexChar(ByteOfChar(c) \div 16), nibbleToHexChar(ByteOfChar(c) % 16)>>
    ELSE <<c>>

escapeChar(c) ==
    IF c = "\\" THEN <<"\\", "\\">>
    ELSE IF c = "\"" THEN <<"\\", "\"">>
    ELSE IF c = "\n" THEN <<"\\", "n">>
    ELSE IF ByteOfChar(c) < 32 \/ ByteOfChar(c) > 126
    THEN <<"\\", nibbleToHexChar(ByteOfChar(c) \div 16), nibbleToHexChar(ByteOfChar(c) % 16)>>
    ELSE <<c>>

escapeString(string, numChars) ==
    Flatten([charIndex \in 1..numChars |-> escapeChar(string[charIndex])])

\* ------------------------------------------------------------------------
\* expandIndentation
\* The scan is a record: the padded input, the index of next (from 1), the
\* depth, the result so far and "scanning", "returned" or "fatal".
\* ------------------------------------------------------------------------
ExpandStart(inString) ==
    [paddedInput |-> Append(inString, "x00"),
     next |-> 1,
     indentDepth |-> 0,
     result |-> <<>>,
     status |-> "scanning"]

AtMarker(sc, marker) ==
    /\ sc.paddedInput[sc.next] = marker[1]
    /\ sc.paddedInput[sc.next + 1] = marker[2]

DedentAllowed_Unchecked(indentDepth) == TRUE

\* errorUnless(indentDepth > 0)
DedentAllowed(indentDepth) == indentDepth > 0

\* One iteration of the while loop, or the return when next reached end.
ExpandStep(sc) ==
    IF ~(sc.next < Len(sc.paddedInput))
    THEN [sc EXCEPT !.status = "returned"]
    ELSE IF AtMarker(sc, INDENT_STRING)
    THEN [sc EXCEPT !.indentDepth = @ + 1, !.next = @ + 2]
    ELSE IF AtMarker(sc, DEDENT_STRING)
    THEN IF DedentAllowed(sc.indentDepth)
         THEN [sc EXCEPT !.indentDepth = @ - 1, !.next = @ + 2]
         ELSE [sc EXCEPT !.status = "fatal"]
    ELSE IF sc.paddedInput[sc.next] = "\n"
    THEN [sc EXCEPT
             !.result = @ \o <<"\n">> \o Spaces(sc.indentDepth * spacesPerIndentLevel),
             !.next = @ + 1]
    ELSE [sc EXCEPT !.result = Append(@, sc.paddedInput[sc.next]), !.next = @ + 1]

\* The whole call: the scan when the loop has ended or the process aborted.
RECURSIVE ExpandRun(_)
ExpandRun(sc) == IF sc.status = "scanning" THEN ExpandRun(ExpandStep(sc)) ELSE sc

expandIndentation(inString) == ExpandRun(ExpandStart(inString))

\* ------------------------------------------------------------------------
\* Printing of types
\* ------------------------------------------------------------------------
asString(type) == <<type>>

\* ScopedTagPrinter: "(" tag INDENT on construction, DEDENT ")" on destruction.
ScopedTag(tag, body) ==
    <<"(", tag>> \o INDENT_STRING \o body \o DEDENT_STRING \o <<")">>

SpacedTypes(elems) ==
    Flatten([i \in 1..Len(elems) |-> <<" ">> \o asString(elems[i])])

\* The unbounded maximum; the largest integer the checker holds stands for
\* 2^64 - 1: no size drawn is larger.
UINT64_MAX == 2147483647

\* ObjectKind: the kinds that may be imported and exported, and invalid.
ObjectKind == {"function", "table", "memory", "global", "exceptionType", "invalid"}

\* ObjectType: the kind and the union of the payloads. member names the
\* member of the union a constructor has initialized, "none" when it has
\* initialized no member.
\* ObjectType(): kind(ObjectKind::invalid)
ObjectType_Default == [kind |-> "invalid", member |-> "none", payload |-> <<>>]

\* ObjectType(FunctionType), ObjectType(TableType), ObjectType(MemoryType),
\* ObjectType(GlobalType), ObjectType(ExceptionType): the kind of the
\* argument's type and the member of that kind.
ObjectType_Payload(kind, inPayload) ==
    [kind |-> kind, member |-> kind, payload |-> inPayload]

\* ObjectType(ObjectKind inKind): kind(inKind)
ObjectType_Kind(inKind) == [kind |-> inKind, member |-> "none", payload |-> <<>>]

\* asFunctionType, asTableType, asMemoryType, asGlobalType, asExceptionType:
\* wavmAssert(objectType.kind == kind), then the member of that kind. A
\* member no constructor has initialized holds an indeterminate value.
asType(kind, objectType, indeterminate) ==
    IF objectType.kind # kind THEN [violation |-> TRUE, value |-> <<>>]
    ELSE [violation |-> FALSE,
          value |-> IF objectType.member = kind THEN objectType.payload
                    ELSE indeterminate]

\* isSubset(super, sub) of SizeConstraints
isSubset_MaxOnly(super, sub) == sub.max <= super.max

isSubset(super, sub) == sub.min >= super.min /\ sub.max <= super.max

print_SizeConstraints(size) ==
    to_string(size.min)
        \o (IF size.max # UINT64_MAX THEN <<" ">> \o to_string(size.max) ELSE <<>>)

print_FunctionType(functionType) ==
    (IF TypeTuple_size(FunctionType_params(functionType)) > 0
     THEN ScopedTag("param", SpacedTypes(TypeTuple_elems(FunctionType_params(functionType))))
     ELSE <<>>)
    \o (IF TypeTuple_size(FunctionType_results(functionType)) > 0
        THEN ScopedTag("result",
                       SpacedTypes(TypeTuple_elems(FunctionType_results(functionType))))
        ELSE <<>>)

print_TableType(type) ==
    print_SizeConstraints(type.size)
        \o (IF type.isShared THEN <<" shared">> ELSE <<>>) \o <<" anyfunc">>

print_MemoryType(type) ==
    print_SizeConstraints(type.size) \o (IF type.isShared THEN <<" shared">> ELSE <<>>)

print_GlobalType(type) ==
    (IF type.isMutable THEN <<"(mut ">> ELSE <<>>)
        \o asString(type.valueType)
        \o (IF type.isMutable THEN <<")">> ELSE <<>>)

print_ExceptionType(type) == SpacedTypes(TypeTuple_elems(type.params))

\* ------------------------------------------------------------------------
\* NameScope
\* ------------------------------------------------------------------------
Foo == <<"f", "o", "o">>
Foo_0 == <<"f", "o", "o", "_", "0">>

NameScope(inSigil) ==
    [sigil |-> inSigil, nameSet |-> {}, nameToUniqueIndexMap |-> <<>>]

\* HashMap::getOrAdd(name, 0): the stored counter, or 0 for a new key.
CounterOf(map, name) ==
    IF \E i \in DOMAIN map : map[i].key = name
    THEN (CHOOSE e \in {map[i] : i \in DOMAIN map} : e.key = name).value
    ELSE 0

SetCounter(map, name, n) ==
    IF \E i \in DOMAIN map : map[i].key = name
    THEN [i \in DOMAIN map |->
             IF map[i].key = name THEN [key |-> name, value |-> n] ELSE map[i]]
    ELSE Append(map, [key |-> name, value |-> n])

BaseName_NoSeparator(name) == name

\* std::string baseName = name.size() ? name + '_' : name;
BaseName(name) == IF Len(name) > 0 THEN Append(name, "_") ELSE name

FirstUnused_NoProbe(nameSet, baseName, n) == n

\* do { name = baseName + to_string(n); ++n; } while(!nameSet.add(name));
\* gives the value of n with which the loop's last name was built.
RECURSIVE FirstUnused(_, _, _)
FirstUnused(nameSet, baseName, n) ==
    IF (baseName \o to_string(n)) \in nameSet
    THEN FirstUnused(nameSet, baseName, n + 1)
    ELSE n

\* NameScope::map: the scope after the call and the name it assigned.
NameScope_map(sc, name) ==
    IF Len(name) = 0 \/ name \in sc.nameSet
    THEN LET baseName == BaseName(name)
             first == CounterOf(sc.nameToUniqueIndexMap, name)
             n == FirstUnused(sc.nameSet, baseName, first)
             unique == baseName \o to_string(n)
         IN [scope |-> [sc EXCEPT
                           !.nameSet = @ \cup {unique},
                           !.nameToUniqueIndexMap = SetCounter(@, name, n + 1)],
             name |-> <<sc.sigil>> \o unique]
    ELSE [scope |-> [sc EXCEPT !.nameSet = @ \cup {name}],
          name |-> <<sc.sigil>> \o name]

\* ------------------------------------------------------------------------
\* ModulePrintContext: the naming pass
\* ------------------------------------------------------------------------
\* for(auto& name : names) { scope.map(name); }
RECURSIVE MapAll(_, _)
MapAll(sc, names) ==
    IF names = <<>> THEN [scope |-> sc, names |-> <<>>]
    ELSE LET r == NameScope_map(sc, Head(names))
             rest == MapAll(r.scope, Tail(names))
         IN [scope |-> rest.scope, names |-> <<r.name>> \o rest.names]

\* The loop over names.functions: the name goes through the global scope,
\* the locals through a scope of their own; the labels are left as they are.
RECURSIVE MapFunctions(_, _)
MapFunctions(sc, functions) ==
    IF functions = <<>> THEN [scope |-> sc, names |-> <<>>]
    ELSE LET function == Head(functions)
             r == NameScope_map(sc, function.name)
             locals == MapAll(NameScope("$"), function.locals)
             rest == MapFunctions(r.scope, Tail(functions))
         IN [scope |-> rest.scope,
             names |-> <<[name |-> r.name,
                          locals |-> locals.names,
                          labels |-> function.labels]>> \o rest.names]

\* IR::getDisassemblyNames
getDisassemblyNames(m) == m.disassemblyNames

\* The constructor: the scope as the loops left it and the names assigned.
ModulePrintContext(nameScope, names) ==
    LET types == MapAll(nameScope, names.types)
        tables == MapAll(types.scope, names.tables)
        memories == MapAll(tables.scope, names.memories)
        globals == MapAll(memories.scope, names.globals)
        functions == MapFunctions(globals.scope, names.functions)
    IN [scope |-> functions.scope,
        names |-> [types |-> types.names,
                   tables |-> tables.names,
                   memories |-> memories.names,
                   globals |-> globals.names,
                   functions |-> functions.names,
                   exceptionTypes |-> names.exceptionTypes]]

\* ------------------------------------------------------------------------
\* ModulePrintContext::printModule and FunctionPrintContext::printFunctionBody
\* Indices are kept as in the source, from 0; sequences are indexed from 1.
\* ------------------------------------------------------------------------
\* The constants drawn are not negative and not floating point.
printInitializerExpression(expression, names) ==
    CASE expression.type = "i32_const" ->
             <<"(i32.const ">> \o to_string(expression.i32) \o <<")">>
      [] expression.type = "i64_const" ->
             <<"(i64.const ">> \o to_string(expression.i64) \o <<")">>
      [] expression.type = "get_global" ->
             <<"(get_global ">> \o names.globals[expression.globalIndex + 1] \o <<")">>

\* ------------------------------------------------------------------------
\* FunctionPrintContext. The context is a record; a handler gives the context
\* as it leaves it. string holds the text the body has appended.
\* ------------------------------------------------------------------------
BlockId == <<"b", "l", "o", "c", "k">>
LoopId == <<"l", "o", "o", "p">>
IfId == <<"i", "f">>
TryId == <<"t", "r", "y">>

FunctionPrintContext(m, names, functionDefIndex) ==
    [module |-> m,
     names |-> names,
     functionDef |-> m.functions.defs[functionDefIndex + 1],
     string |-> <<>>,
     labelNames |-> names.functions[Len(m.functions.imports) + functionDefIndex + 1].labels,
     localNames |-> names.functions[Len(m.functions.imports) + functionDefIndex + 1].locals,
     labelNameScope |-> NameScope("$"),
     labelIndex |-> 0,
     controlStack |-> <<>>]

\* IR::resolveBlockType: no parameters or result is the type ()->(), an
\* index is that entry of module.types.
resolveBlockType(m, indexedSignature) ==
    IF indexedSignature.format = "functionType"
    THEN m.types[indexedSignature.index + 1]
    ELSE LET none == TypeTuple(TupleLookup(TypeTuple_Impl(0, <<>>)))
         IN FunctionType(FuncLookup(FunctionType_Impl(none, none)))

printControlSignature(ctx, indexedSignature) ==
    [ctx EXCEPT !.string = @ \o print_FunctionType(resolveBlockType(ctx.module,
                                                                     indexedSignature))]

getBranchTargetId_FromBottom(ctx, depth) ==
    LET controlContext == ctx.controlStack[depth + 1]
    IN IF controlContext.type = "function" THEN to_string(depth)
       ELSE controlContext.labelId

\* controlStack[controlStack.size() - depth - 1]
getBranchTargetId(ctx, depth) ==
    LET controlContext == ctx.controlStack[Len(ctx.controlStack) - depth]
    IN IF controlContext.type = "function" THEN to_string(depth)
       ELSE controlContext.labelId

\* The context after the call and the label the call returns: map changes
\* labelId in place, so the label printed and returned carries the sigil.
printControlLabel_Unmapped(ctx, labelIdBase) ==
    LET labelId == IF ctx.labelIndex < Len(ctx.labelNames)
                   THEN ctx.labelNames[ctx.labelIndex + 1]
                   ELSE labelIdBase
        mapped == NameScope_map(ctx.labelNameScope, labelId)
    IN [ctx |-> [ctx EXCEPT !.labelNameScope = mapped.scope,
                            !.string = @ \o <<" ">> \o mapped.name,
                            !.labelIndex = @ + 1],
        labelId |-> labelId]

\* A label index that stays where it is.
printControlLabel_NoAdvance(ctx, labelIdBase) ==
    LET labelId == IF ctx.labelIndex < Len(ctx.labelNames)
                   THEN ctx.labelNames[ctx.labelIndex + 1]
                   ELSE labelIdBase
        mapped == NameScope_map(ctx.labelNameScope, labelId)
    IN [ctx |-> [ctx EXCEPT !.labelNameScope = mapped.scope,
                            !.string = @ \o <<" ">> \o mapped.name],
        labelId |-> mapped.name]

printControlLabel(ctx, labelIdBase) ==
    LET labelId == IF ctx.labelIndex < Len(ctx.labelNames)
                   THEN ctx.labelNames[ctx.labelIndex + 1]
                   ELSE labelIdBase
        mapped == NameScope_map(ctx.labelNameScope, labelId)
    IN [ctx |-> [ctx EXCEPT !.labelNameScope = mapped.scope,
                            !.string = @ \o <<" ">> \o mapped.name,
                            !.labelIndex = @ + 1],
        labelId |-> mapped.name]

pushControlStack_NoIndent(ctx, type, labelId) ==
    [ctx EXCEPT !.controlStack = Append(@, [type |-> type, labelId |-> labelId])]

pushControlStack(ctx, type, labelId) ==
    [ctx EXCEPT !.controlStack = Append(@, [type |-> type, labelId |-> labelId]),
                !.string = @ \o INDENT_STRING]

\* block, loop and if_: the keyword, the label, the signature, the frame.
openControl(ctx, keyword, labelIdBase, type, imm) ==
    LET labelled == printControlLabel([ctx EXCEPT !.string = @ \o <<"\n", keyword>>],
                                      labelIdBase)
    IN pushControlStack(printControlSignature(labelled.ctx, imm.type),
                        type, labelled.labelId)

block(ctx, imm) == openControl(ctx, "block", BlockId, "block", imm)

loop(ctx, imm) == openControl(ctx, "loop", LoopId, "loop", imm)

if_(ctx, imm) == openControl(ctx, "if", IfId, "ifThen", imm)

\* controlStack.back().type = type
SetTopType(controlStack, type) ==
    [controlStack EXCEPT ![Len(controlStack)].type = type]

else_(ctx) ==
    [ctx EXCEPT !.controlStack = SetTopType(@, "ifElse"),
                !.string = @ \o DEDENT_STRING \o <<"\n", "else">> \o INDENT_STRING]

\* An end that leaves the frame on the stack.
end_NoPop(ctx) ==
    LET back == ctx.controlStack[Len(ctx.controlStack)]
    IN [ctx EXCEPT
           !.string = @ \o DEDENT_STRING
                        \o (IF back.type # "function"
                            THEN <<"\n", "end ;; ">> \o back.labelId ELSE <<>>)]

end(ctx) ==
    LET back == ctx.controlStack[Len(ctx.controlStack)]
    IN [ctx EXCEPT
           !.string = @ \o DEDENT_STRING
                        \o (IF back.type # "function"
                            THEN <<"\n", "end ;; ">> \o back.labelId ELSE <<>>),
           !.controlStack = SubSeq(@, 1, Len(@) - 1)]

br(ctx, imm) ==
    [ctx EXCEPT !.string = @ \o <<"\n", "br ">> \o getBranchTargetId(ctx, imm.targetDepth)]

br_if(ctx, imm) ==
    [ctx EXCEPT !.string = @ \o <<"\n", "br_if ">>
                             \o getBranchTargetId(ctx, imm.targetDepth)]

numTargetsPerLine == 16

br_table(ctx, imm) ==
    LET targetDepths == ctx.functionDef.branchTables[imm.branchTableIndex + 1]
    IN [ctx EXCEPT !.string =
           @ \o <<"\n", "br_table">> \o INDENT_STRING
             \o Flatten([targetIndex \in 1..Len(targetDepths) |->
                    (IF (targetIndex - 1) % numTargetsPerLine = 0
                     THEN <<"\n">> ELSE <<" ">>)
                        \o getBranchTargetId(ctx, targetDepths[targetIndex])])
             \o <<"\n">> \o getBranchTargetId(ctx, imm.defaultTargetDepth)
             \o <<" ;; default">> \o DEDENT_STRING]

\* The frame is pushed before the signature is printed; no label is printed.
try_(ctx, imm) ==
    printControlSignature(
        pushControlStack([ctx EXCEPT !.string = @ \o <<"\n", "try">>], "try_", TryId),
        imm.type)

catch_(ctx, imm) ==
    [ctx EXCEPT !.controlStack = SetTopType(@, "catch_"),
                !.string = @ \o DEDENT_STRING \o <<"\n", "catch ">>
                             \o ctx.names.functions[imm.exceptionTypeIndex + 1].name
                             \o INDENT_STRING]

catch_all(ctx) ==
    [ctx EXCEPT !.controlStack = SetTopType(@, "catch_"),
                !.string = @ \o DEDENT_STRING \o <<"\n", "catch_all">> \o INDENT_STRING]

\* OperatorDecoderStream::decodeOp: the handler of the operator's opcode.
decodeOp(ctx, op) ==
    CASE op.name = "block" -> block(ctx, op.imm)
      [] op.name = "loop" -> loop(ctx, op.imm)
      [] op.name = "if" -> if_(ctx, op.imm)
      [] op.name = "else" -> else_(ctx)
      [] op.name = "end" -> end(ctx)
      [] op.name = "br" -> br(ctx, op.imm)
      [] op.name = "br_if" -> br_if(ctx, op.imm)
      [] op.name = "br_table" -> br_table(ctx, op.imm)
      [] op.name = "try" -> try_(ctx, op.imm)
      [] op.name = "catch" -> catch_(ctx, op.imm)
      [] op.name = "catch_all" -> catch_all(ctx)

\* A loop that only tests the decoder.
RECURSIVE DecodeOps_UntilExhausted(_, _)
DecodeOps_UntilExhausted(ctx, code) ==
    IF code = <<>> THEN ctx
    ELSE DecodeOps_UntilExhausted(decodeOp(ctx, Head(code)), Tail(code))

\* while(decoder && controlStack.size()) { decoder.decodeOp(*this); }
RECURSIVE DecodeOps(_, _)
DecodeOps(ctx, code) ==
    IF code = <<>> \/ ctx.controlStack = <<>> THEN ctx
    ELSE DecodeOps(decodeOp(ctx, Head(code)), Tail(code))

\* The first half of printFunctionBody, up to the decode loop.
enterFunctionBody(ctx) ==
    LET pushed == pushControlStack(ctx, "function", <<>>)
    IN [pushed EXCEPT !.string = @ \o DEDENT_STRING]

\* The last statement of printFunctionBody, reached however the loop ended.
leaveFunctionBody(ctx) ==
    [ctx EXCEPT !.string = @ \o INDENT_STRING \o <<"\n">>]

printFunctionBody(ctx) ==
    leaveFunctionBody(DecodeOps(enterFunctionBody(ctx), ctx.functionDef.code))

printImportType(m, kind, type) ==
    CASE kind = "func" -> print_FunctionType(m.types[type.index + 1])
      [] kind = "table" -> print_TableType(type)
      [] kind = "memory" -> print_MemoryType(type)
      [] kind = "global" -> print_GlobalType(type)
      [] kind = "exception_type" -> print_ExceptionType(type)

printImport(m, import, name, typeTag) ==
    <<"\n">> \o ScopedTag("import",
        <<" \"">> \o escapeString(import.moduleName, Len(import.moduleName))
            \o <<"\" \"">> \o escapeString(import.exportName, Len(import.exportName))
            \o <<"\" (", typeTag, " ">> \o name \o <<" ">>
            \o printImportType(m, typeTag, import.type) \o <<")">>)

printImports(m, names) ==
    Flatten([i \in 1..Len(m.functions.imports) |->
        printImport(m, m.functions.imports[i], names.functions[i].name, "func")])
    \o Flatten([i \in 1..Len(m.tables.imports) |->
        printImport(m, m.tables.imports[i], names.tables[i], "table")])
    \o Flatten([i \in 1..Len(m.memories.imports) |->
        printImport(m, m.memories.imports[i], names.memories[i], "memory")])
    \o Flatten([i \in 1..Len(m.globals.imports) |->
        printImport(m, m.globals.imports[i], names.globals[i], "global")])
    \o Flatten([i \in 1..Len(m.exceptionTypes.imports) |->
        printImport(m, m.exceptionTypes.imports[i], names.exceptionTypes[i],
                    "exception_type")])

printExports(m, names) ==
    Flatten([i \in 1..Len(m.exports) |->
        LET export_ == m.exports[i]
        IN <<"\n">> \o ScopedTag("export",
               <<" \"">> \o escapeString(export_.name, Len(export_.name)) \o <<"\" (">>
                   \o (CASE export_.kind = "function" ->
                                <<"func ">> \o names.functions[export_.index + 1].name
                         [] export_.kind = "table" ->
                                <<"table ">> \o names.tables[export_.index + 1]
                         [] export_.kind = "memory" ->
                                <<"memory ">> \o names.memories[export_.index + 1]
                         [] export_.kind = "global" ->
                                <<"global ">> \o names.globals[export_.index + 1]
                         [] export_.kind = "exceptionType" ->
                                <<"exception_type ">>
                                    \o names.exceptionTypes[export_.index + 1])
                   \o <<")">>)])

numElemsPerLine == 8

numBytesPerLine == 64

\* The lines of escaped bytes of a data segment or of a user section.
printDataLines(data) ==
    Flatten([k \in 1..((Len(data) + numBytesPerLine - 1) \div numBytesPerLine) |->
        LET offset == (k - 1) * numBytesPerLine
            numChars == IF Len(data) - offset < numBytesPerLine
                        THEN Len(data) - offset ELSE numBytesPerLine
        IN <<"\n", "\"">>
               \o escapeString(CharsOfBytes(SubSeq(data, offset + 1, offset + numChars)),
                               numChars)
               \o <<"\"">>])

printTableSegments(m, names) ==
    Flatten([i \in 1..Len(m.tableSegments) |->
        LET tableSegment == m.tableSegments[i]
        IN <<"\n">> \o ScopedTag("elem",
               <<" ">> \o names.tables[tableSegment.tableIndex + 1] \o <<" ">>
                   \o printInitializerExpression(tableSegment.baseOffset, names)
                   \o Flatten([k \in 1..Len(tableSegment.indices) |->
                          (IF (k - 1) % numElemsPerLine = 0 THEN <<"\n">> ELSE <<" ">>)
                              \o names.functions[tableSegment.indices[k] + 1].name]))])

printDataSegments(m, names) ==
    Flatten([i \in 1..Len(m.dataSegments) |->
        LET dataSegment == m.dataSegments[i]
        IN <<"\n">> \o ScopedTag("data",
               <<" ">> \o names.memories[dataSegment.memoryIndex + 1] \o <<" ">>
                   \o printInitializerExpression(dataSegment.baseOffset, names)
                   \o printDataLines(dataSegment.data))])

\* No start function; the largest integer the checker holds stands for the
\* largest Uptr, and only equality with it is used.
UINTPTR_MAX == 2147483647

printStart(m, names) ==
    IF m.startFunctionIndex # UINTPTR_MAX
    THEN <<"\n">> \o ScopedTag("start",
             <<" ">> \o names.functions[m.startFunctionIndex + 1].name)
    ELSE <<>>

printTypes(m, names) ==
    Flatten([i \in 1..Len(m.types) |->
        <<"\n">> \o ScopedTag("type",
            <<" ">> \o names.types[i] \o <<" (func ">>
                \o print_FunctionType(m.types[i]) \o <<")">>)])

printMemoryDefs(m, names) ==
    Flatten([i \in 1..Len(m.memories.defs) |->
        <<"\n">> \o ScopedTag("memory",
            <<" ">> \o names.memories[Len(m.memories.imports) + i] \o <<" ">>
                \o print_MemoryType(m.memories.defs[i].type))])

printTableDefs(m, names) ==
    Flatten([i \in 1..Len(m.tables.defs) |->
        <<"\n">> \o ScopedTag("table",
            <<" ">> \o names.tables[Len(m.tables.imports) + i] \o <<" ">>
                \o print_TableType(m.tables.defs[i].type))])

printGlobalDefs(m, names) ==
    Flatten([i \in 1..Len(m.globals.defs) |->
        <<"\n">> \o ScopedTag("global",
            <<" ">> \o names.globals[Len(m.globals.imports) + i] \o <<" ">>
                \o print_GlobalType(m.globals.defs[i].type) \o <<" ">>
                \o printInitializerExpression(m.globals.defs[i].initializer, names))])

printExceptionTypeDefs(m, names) ==
    Flatten([i \in 1..Len(m.exceptionTypes.defs) |->
        <<"\n">> \o ScopedTag("exception_type",
            <<" ">> \o names.exceptionTypes[Len(m.exceptionTypes.imports) + i]
                \o print_ExceptionType(m.exceptionTypes.defs[i].type))])

printFunctionDef(m, names, i) ==
    LET functionDef == m.functions.defs[i]
        functionType == m.types[functionDef.type.index + 1]
        params == TypeTuple_elems(FunctionType_params(functionType))
        results == TypeTuple_elems(FunctionType_results(functionType))
        functionIndex == Len(m.functions.imports) + i
        localNames == names.functions[functionIndex].locals
    IN <<"\n", "\n">> \o ScopedTag("func",
           <<" ">> \o names.functions[functionIndex].name
               \o <<" (type ">> \o names.types[functionDef.type.index + 1] \o <<")">>
               \o Flatten([j \in 1..Len(params) |->
                      <<"\n">> \o ScopedTag("param",
                          <<" ">> \o localNames[j] \o <<" ">> \o asString(params[j]))])
               \o (IF Len(results) > 0
                   THEN <<"\n">> \o ScopedTag("result", SpacedTypes(results))
                   ELSE <<>>)
               \o Flatten([j \in 1..Len(functionDef.nonParameterLocalTypes) |->
                      <<"\n">> \o ScopedTag("local",
                          <<" ">> \o localNames[Len(params) + j] \o <<" ">>
                              \o asString(functionDef.nonParameterLocalTypes[j]))])
               \o printFunctionBody(FunctionPrintContext(m, names, i - 1)).string)

printFunctionDefs(m, names) ==
    Flatten([i \in 1..Len(m.functions.defs) |-> printFunctionDef(m, names, i)])

\* ------------------------------------------------------------------------
\* ModulePrintContext::printLinkingSection
\* A stream is the bytes and the number of bytes read. A read gives threw
\* (a FatalSerializationException), the value and the stream after it.
\* ------------------------------------------------------------------------
MemoryInputStream(bytes) == [bytes |-> bytes, next |-> 0]

capacity(stream) == Len(stream.bytes) - stream.next

Threw(stream) == [threw |-> TRUE, value |-> 0, stream |-> stream]

\* serializeNativeValue of a U8
serializeNativeValue(stream) ==
    IF capacity(stream) < 1 THEN Threw(stream)
    ELSE [threw |-> FALSE,
          value |-> stream.bytes[stream.next + 1],
          stream |-> [stream EXCEPT !.next = @ + 1]]

\* serializeVarUInt32: LEB128, at most 5 bytes, 32 value bits.
RECURSIVE readVarUInt(_, _, _)
readVarUInt(stream, numBytesRead, value) ==
    LET byte == serializeNativeValue(stream)
    IN IF byte.threw THEN Threw(stream)
       ELSE IF numBytesRead = 4 /\ byte.value >= 16 THEN Threw(stream)
       ELSE IF byte.value < 128
       THEN [threw |-> FALSE,
             value |-> value + byte.value * (128 ^ numBytesRead),
             stream |-> byte.stream]
       ELSE readVarUInt(byte.stream, numBytesRead + 1,
                        value + (byte.value % 128) * (128 ^ numBytesRead))

serializeVarUInt32(stream) == readVarUInt(stream, 0, 0)

\* stream.advance(numBytes)
advance(stream, numBytes) ==
    IF capacity(stream) < numBytes THEN Threw(stream)
    ELSE [threw |-> FALSE,
          value |-> SubSeq(stream.bytes, stream.next + 1, stream.next + numBytes),
          stream |-> [stream EXCEPT !.next = @ + numBytes]]

\* serialize of a std::string: its size, then its characters.
serializeString(stream) ==
    LET size == serializeVarUInt32(stream)
        chars == advance(size.stream, size.value)
    IN IF size.threw \/ chars.threw THEN Threw(stream)
       ELSE [threw |-> FALSE, value |-> CharsOfBytes(chars.value), stream |-> chars.stream]

\* What a part of the decoder did: whether it threw, the text it appended
\* and the indentDepth it left.
\* fault: the decoder read outside an object and the process ended there.
Decoded(threw, out, indentDepth) ==
    [threw |-> threw, out |-> out, indentDepth |-> indentDepth, fault |-> FALSE]

\* INT_MIN as std::to_string prints it.
INT_MIN_String == <<"-", "2", "1", "4", "7", "4", "8", "3", "6", "4", "8">>

\* The digits of an int are 32.
IntBits == 32

\* std::to_string(1 << alignment): 1 is an int. A count of IntBits - 1
\* shifts the one into the sign bit; a count of IntBits or more is undefined
\* behaviour: the shift instruction masks the count or shifts the one out.
ShiftLeftOne(alignment) ==
    IF alignment < IntBits - 1 THEN to_string(2 ^ alignment)
    ELSE IF alignment = IntBits - 1 THEN INT_MIN_String
    ELSE IF undefined.shift = "zero" THEN to_string(0)
    ELSE IF alignment % IntBits = IntBits - 1 THEN INT_MIN_String
    ELSE to_string(2 ^ (alignment % IntBits))

RECURSIVE segmentInfoEntries(_, _, _)
segmentInfoEntries(substream, numSegments, indentDepth) ==
    IF numSegments = 0 THEN Decoded(FALSE, <<>>, indentDepth)
    ELSE LET segmentName == serializeString(substream)
             alignment == serializeVarUInt32(segmentName.stream)
             flags == serializeVarUInt32(alignment.stream)
         IN IF segmentName.threw \/ alignment.threw \/ flags.threw
            THEN Decoded(TRUE, <<>>, indentDepth)
            ELSE LET rest == segmentInfoEntries(flags.stream, numSegments - 1, indentDepth)
                 IN Decoded(rest.threw,
                            <<"\n">> \o segmentName.value
                                \o <<" alignment=">> \o ShiftLeftOne(alignment.value)
                                \o <<" flags=">> \o to_string(flags.value)
                                \o rest.out,
                            rest.indentDepth)

segmentInfo(substream, indentDepth) ==
    LET numSegments == serializeVarUInt32(substream)
        opened == <<"\n", "Segments:">> \o INDENT_STRING
    IN IF numSegments.threw THEN Decoded(TRUE, opened, indentDepth + 1)
       ELSE LET entries == segmentInfoEntries(numSegments.stream, numSegments.value,
                                              indentDepth + 1)
            IN IF entries.threw THEN Decoded(TRUE, opened \o entries.out, entries.indentDepth)
               ELSE Decoded(FALSE, opened \o entries.out \o DEDENT_STRING,
                            entries.indentDepth - 1)

\* A loop that takes a read past the end as the index 0 and goes on.
RECURSIVE initFuncEntries_ReadsOn(_, _, _, _)
initFuncEntries_ReadsOn(substream, numInitFuncs, names, indentDepth) ==
    IF numInitFuncs = 0 THEN Decoded(FALSE, <<>>, indentDepth)
    ELSE LET functionIndex == serializeVarUInt32(substream)
             rest == initFuncEntries_ReadsOn(functionIndex.stream, numInitFuncs - 1,
                                             names, indentDepth)
         IN Decoded(rest.threw,
                    <<"\n">>
                        \o (IF functionIndex.value < Len(names.functions)
                            THEN <<" ">> \o names.functions[functionIndex.value + 1].name
                            ELSE <<" <invalid function index ">>
                                     \o to_string(functionIndex.value) \o <<">">>)
                        \o rest.out,
                    rest.indentDepth)

RECURSIVE initFuncEntries(_, _, _, _)
initFuncEntries(substream, numInitFuncs, names, indentDepth) ==
    IF numInitFuncs = 0 THEN Decoded(FALSE, <<>>, indentDepth)
    ELSE LET functionIndex == serializeVarUInt32(substream)
         IN IF functionIndex.threw THEN Decoded(TRUE, <<>>, indentDepth)
            ELSE LET rest == initFuncEntries(functionIndex.stream, numInitFuncs - 1,
                                             names, indentDepth)
                 IN Decoded(rest.threw,
                            <<"\n">>
                                \o (IF functionIndex.value < Len(names.functions)
                                    THEN <<" ">> \o names.functions[functionIndex.value + 1].name
                                    ELSE <<" <invalid function index ">>
                                             \o to_string(functionIndex.value) \o <<">">>)
                                \o rest.out,
                            rest.indentDepth)

initFuncs(substream, names, indentDepth) ==
    LET numInitFuncs == serializeVarUInt32(substream)
        opened == <<"\n", "Init funcs:">> \o INDENT_STRING
    IN IF numInitFuncs.threw THEN Decoded(TRUE, opened, indentDepth + 1)
       ELSE LET entries == initFuncEntries(numInitFuncs.stream, numInitFuncs.value,
                                           names, indentDepth + 1)
            IN IF entries.threw THEN Decoded(TRUE, opened \o entries.out, entries.indentDepth)
               ELSE Decoded(FALSE, opened \o entries.out \o DEDENT_STRING,
                            entries.indentDepth - 1)

\* A part of the decoder that goes on reading: Decoded and the stream left.
DecodedAt(threw, out, indentDepth, stream) ==
    [threw |-> threw, out |-> out, indentDepth |-> indentDepth, fault |-> FALSE,
     stream |-> stream]

\* The text out, then what the rest of the loop did.
Then(out, rest) == [rest EXCEPT !.out = out \o @]

\* vector[index] of a std::vector of names: operator[] checks nothing, and
\* an index past the end reads what lies behind the vector (undefined
\* behaviour).
elementAt(vector, index) ==
    IF index < Len(vector) THEN vector[index + 1] ELSE undefined.beyond

\* The member name of each element of names.functions.
NamesOfFunctions(names) == [i \in DOMAIN names.functions |-> names.functions[i].name]

\* case COMDATKind::function and case COMDATKind::global: the kind, then
\* the report of an index the names do not have and the throw, or the name.
comdatReference_Unchecked(kindName, invalid, vector, index, indentDepth, stream, rest) ==
    Then(<<"\n", "Symbol: ", kindName>> \o elementAt(vector, index), rest)

comdatReference(kindName, invalid, vector, index, indentDepth, stream, rest) ==
    IF index >= Len(vector)
    THEN DecodedAt(TRUE, <<"\n", "Symbol: ", kindName, invalid>> \o to_string(index),
                   indentDepth, stream)
    ELSE Then(<<"\n", "Symbol: ", kindName>> \o elementAt(vector, index), rest)

RECURSIVE comdatSymbols(_, _, _, _)
comdatSymbols(substream, numSymbols, names, indentDepth) ==
    IF numSymbols = 0 THEN DecodedAt(FALSE, <<>>, indentDepth, substream)
    ELSE LET kind == serializeVarUInt32(substream)
             index == serializeVarUInt32(kind.stream)
             rest == comdatSymbols(index.stream, numSymbols - 1, names, indentDepth)
         IN IF kind.threw \/ index.threw
            THEN DecodedAt(TRUE, <<>>, indentDepth, substream)
            ELSE CASE kind.value = 0 ->
                          Then(<<"\n", "Symbol: ", "data segment ">> \o to_string(index.value),
                               rest)
                   [] kind.value = 1 ->
                          comdatReference("function ", "Invalid COMDAT function index ",
                                          NamesOfFunctions(names), index.value,
                                          indentDepth, index.stream, rest)
                   [] kind.value = 2 ->
                          comdatReference("global ", "Invalid COMDAT global index ",
                                          names.globals, index.value,
                                          indentDepth, index.stream, rest)
                   [] OTHER ->
                          DecodedAt(TRUE,
                                    <<"\n", "Symbol: ", "\n", "Unknown comdat kind: ">>
                                        \o to_string(kind.value),
                                    indentDepth, index.stream)

RECURSIVE comdatEntries(_, _, _, _)
comdatEntries(substream, numComdats, names, indentDepth) ==
    IF numComdats = 0 THEN DecodedAt(FALSE, <<>>, indentDepth, substream)
    ELSE LET comdatName == serializeString(substream)
             flags == serializeVarUInt32(comdatName.stream)
             numSymbols == serializeVarUInt32(flags.stream)
             opened == <<"\n">> \o comdatName.value
                           \o (IF flags.value # 0
                               THEN <<" OtherFlags=">> \o to_string(flags.value) ELSE <<>>)
                           \o INDENT_STRING
             symbols == comdatSymbols(numSymbols.stream, numSymbols.value, names,
                                      indentDepth + 1)
         IN IF comdatName.threw \/ flags.threw
            THEN DecodedAt(TRUE, <<>>, indentDepth, substream)
            ELSE IF numSymbols.threw
            THEN DecodedAt(TRUE, opened, indentDepth + 1, substream)
            ELSE IF symbols.threw THEN Then(opened, symbols)
            ELSE Then(opened \o symbols.out \o DEDENT_STRING,
                      comdatEntries(symbols.stream, numComdats - 1, names, indentDepth))

comdatInfo(substream, names, indentDepth) ==
    LET numComdats == serializeVarUInt32(substream)
        opened == <<"\n", "Comdats:">> \o INDENT_STRING
    IN IF numComdats.threw THEN Decoded(TRUE, opened, indentDepth + 1)
       ELSE LET entries == comdatEntries(numComdats.stream, numComdats.value, names,
                                         indentDepth + 1)
            IN IF entries.threw THEN Decoded(TRUE, opened \o entries.out, entries.indentDepth)
               ELSE Decoded(FALSE, opened \o entries.out \o DEDENT_STRING,
                            entries.indentDepth - 1)

\* flags & bit
HasFlag(flags, bit) == (flags \div bit) % 2 = 1

\* The named flags in turn, each cleared once printed, then the rest.
symbolFlags(flags0) ==
    LET flags1 == IF HasFlag(flags0, 1) THEN flags0 - 1 ELSE flags0
        flags2 == IF HasFlag(flags1, 2) THEN flags1 - 2 ELSE flags1
        flags3 == IF HasFlag(flags2, 4) THEN flags2 - 4 ELSE flags2
        flags4 == IF HasFlag(flags3, 16) THEN flags3 - 16 ELSE flags3
    IN (IF HasFlag(flags0, 1) THEN <<" *WEAK*">> ELSE <<>>)
           \o (IF HasFlag(flags1, 2) THEN <<" *LOCAL*">> ELSE <<>>)
           \o (IF HasFlag(flags2, 4) THEN <<" *HIDDEN*">> ELSE <<>>)
           \o (IF HasFlag(flags3, 16) THEN <<" *UNDEFINED*">> ELSE <<>>)
           \o (IF flags4 # 0 THEN <<" OtherFlags=">> \o to_string(flags4) ELSE <<>>)

\* moduleName + "." + exportName of an import
importSymbolName(import) == import.moduleName \o <<".">> \o import.exportName

\* A value held in a local variable: it is computed once, where the
\* variable is set, and named in what follows.
One(values) == CHOOSE value \in values : TRUE

\* What the first switch on the symbol kind left in the loop's variables.
SymbolRead(threw, kindName, symbolName, index, offset, numBytes, stream) ==
    [threw |-> threw, kindName |-> kindName, symbolName |-> symbolName,
     index |-> index, offset |-> offset, numBytes |-> numBytes, stream |-> stream]

\* case function and case global: the index, then the name of the import
\* with that index or, for a definition, the name in the stream.
readIndexedSymbol(substream, kindName, imports) ==
    One({IF index.threw THEN SymbolRead(TRUE, kindName, <<>>, 0, 0, 0, substream)
         ELSE IF index.value < Len(imports)
         THEN SymbolRead(FALSE, kindName, importSymbolName(imports[index.value + 1]),
                         index.value, 0, 0, index.stream)
         ELSE One({SymbolRead(explicitName.threw, kindName, explicitName.value,
                              index.value, 0, 0, explicitName.stream) :
                       explicitName \in {serializeString(index.stream)}}) :
             index \in {serializeVarUInt32(substream)}})

\* case data: the name, the index, the offset and the size.
readDataSymbol(substream) ==
    One({One({One({One({
        SymbolRead(symbolName.threw \/ index.threw \/ offset.threw \/ numBytes.threw,
                   <<"data ">>, symbolName.value, index.value, offset.value,
                   numBytes.value, numBytes.stream) :
            numBytes \in {serializeVarUInt32(offset.stream)}}) :
            offset \in {serializeVarUInt32(index.stream)}}) :
            index \in {serializeVarUInt32(symbolName.stream)}}) :
            symbolName \in {serializeString(substream)}})

\* case section: the index, and the name of the user section it names.
readSectionSymbol_Throws(substream, m) ==
    One({IF index.threw \/ index.value >= Len(m.userSections)
         THEN SymbolRead(TRUE, <<"section ">>, <<>>, 0, 0, 0, substream)
         ELSE SymbolRead(FALSE, <<"section ">>, m.userSections[index.value + 1].name,
                         index.value, 0, 0, index.stream) :
             index \in {serializeVarUInt32(substream)}})

readSectionSymbol(substream, m) ==
    One({IF index.threw THEN SymbolRead(TRUE, <<"section ">>, <<>>, 0, 0, 0, substream)
         ELSE SymbolRead(FALSE, <<"section ">>,
                         IF index.value < Len(m.userSections)
                         THEN m.userSections[index.value + 1].name
                         ELSE <<"*invalid index*">>,
                         index.value, 0, 0, index.stream) :
             index \in {serializeVarUInt32(substream)}})

\* The first switch on the symbol kind, for the four known kinds.
readSymbol(substream, kind, m) ==
    CASE kind = 0 -> readIndexedSymbol(substream, <<"function ">>, m.functions.imports)
      [] kind = 2 -> readIndexedSymbol(substream, <<"global ">>, m.globals.imports)
      [] kind = 1 -> readDataSymbol(substream)
      [] kind = 3 -> readSectionSymbol(substream, m)

\* Whether the second switch reads a name the vector does not have.
readsBeyond(kind, symbol, names) ==
    \/ kind = 0 /\ symbol.index >= Len(names.functions)
    \/ kind = 2 /\ symbol.index >= Len(names.globals)

\* The line of a symbol: kind name, symbol name, what the second switch
\* prints, and the flags. The indices of function and global symbols are
\* used as read.
symbolLine(kind, flags, symbol, names) ==
    <<"\n">> \o symbol.kindName \o symbol.symbolName
        \o (CASE kind = 0 -> <<" ">> \o elementAt(NamesOfFunctions(names), symbol.index)
              [] kind = 2 -> <<" ">> \o elementAt(names.globals, symbol.index)
              [] OTHER -> <<" index=">> \o to_string(symbol.index))
        \o (IF kind = 1
            THEN <<" offset=">> \o to_string(symbol.offset)
                     \o <<" size=">> \o to_string(symbol.numBytes)
            ELSE <<>>)
        \o symbolFlags(flags)

RECURSIVE symbolEntries(_, _, _, _, _)
symbolEntries(substream, numSymbols, m, names, indentDepth) ==
    IF numSymbols = 0 THEN Decoded(FALSE, <<>>, indentDepth)
    ELSE One({One({
        IF kind.threw \/ flags.threw THEN Decoded(TRUE, <<>>, indentDepth)
        ELSE IF kind.value > 3
        THEN Decoded(TRUE, <<"\n", "Unknown symbol kind: ">> \o to_string(kind.value),
                     indentDepth)
        ELSE One({IF symbol.threw THEN Decoded(TRUE, <<>>, indentDepth)
                  ELSE IF readsBeyond(kind.value, symbol, names)
                          /\ undefined.faults
                  THEN [Decoded(TRUE, <<"\n">> \o symbol.kindName \o symbol.symbolName,
                                indentDepth) EXCEPT !.fault = TRUE]
                  ELSE Then(symbolLine(kind.value, flags.value, symbol, names),
                            symbolEntries(symbol.stream, numSymbols - 1, m, names,
                                          indentDepth)) :
                      symbol \in {readSymbol(flags.stream, kind.value, m)}}) :
            flags \in {serializeVarUInt32(kind.stream)}}) :
            kind \in {serializeNativeValue(substream)}})

symbolTable(substream, m, names, indentDepth) ==
    LET numSymbols == serializeVarUInt32(substream)
        opened == <<"\n", "Symbols:">> \o INDENT_STRING
    IN IF numSymbols.threw THEN Decoded(TRUE, opened, indentDepth + 1)
       ELSE LET entries == symbolEntries(numSymbols.stream, numSymbols.value, m, names,
                                         indentDepth + 1)
            IN IF entries.threw THEN Then(opened, entries)
               ELSE Decoded(FALSE, opened \o entries.out \o DEDENT_STRING,
                            entries.indentDepth - 1)

\* The tag of a subsection: LinkingSubsectionType.
segmentInfoTag == 5

initFuncsTag == 6

comdatInfoTag == 7

symbolTableTag == 8

\* default: of the switch on the subsection type: the comment line, and
\* the throw that ends the section.
unknownSubsection_Skipped(subsectionType, indentDepth) ==
    Decoded(FALSE,
            <<"\n", "Unknown WASM linking subsection type: ">> \o to_string(subsectionType),
            indentDepth)

unknownSubsection(subsectionType, indentDepth) ==
    Decoded(TRUE,
            <<"\n", "Unknown WASM linking subsection type: ">> \o to_string(subsectionType),
            indentDepth)

\* switch(subsectionType)
subsection(subsectionType, substream, m, names, indentDepth) ==
    CASE subsectionType = segmentInfoTag -> segmentInfo(substream, indentDepth)
      [] subsectionType = initFuncsTag -> initFuncs(substream, names, indentDepth)
      [] subsectionType = comdatInfoTag -> comdatInfo(substream, names, indentDepth)
      [] subsectionType = symbolTableTag -> symbolTable(substream, m, names, indentDepth)
      [] OTHER -> unknownSubsection(subsectionType, indentDepth)

\* A loop whose entries read from all the bytes left in the section.
RECURSIVE linkingSubsections_Unbounded(_, _, _, _)
linkingSubsections_Unbounded(stream, m, names, indentDepth) ==
    IF capacity(stream) = 0 THEN Decoded(FALSE, <<>>, indentDepth)
    ELSE One({
        IF subsectionType.threw THEN Decoded(TRUE, <<>>, indentDepth)
        ELSE One({
            IF numSubsectionBytes.threw THEN Decoded(TRUE, <<>>, indentDepth)
            ELSE One({
                IF bytes.threw THEN Decoded(TRUE, <<>>, indentDepth)
                ELSE One({
                    IF done.threw THEN done
                    ELSE Then(done.out,
                              linkingSubsections_Unbounded(bytes.stream, m, names,
                                                           done.indentDepth)) :
                        done \in {subsection(subsectionType.value,
                                             MemoryInputStream(
                                                 SubSeq(stream.bytes,
                                                        numSubsectionBytes.stream.next + 1,
                                                        Len(stream.bytes))),
                                             m, names, indentDepth)}}) :
                    bytes \in {advance(numSubsectionBytes.stream,
                                       numSubsectionBytes.value)}}) :
                numSubsectionBytes \in {serializeVarUInt32(subsectionType.stream)}}) :
            subsectionType \in {serializeNativeValue(stream)}})

\* while(stream.capacity()): one subsection after the other.
RECURSIVE linkingSubsections(_, _, _, _)
linkingSubsections(stream, m, names, indentDepth) ==
    IF capacity(stream) = 0 THEN Decoded(FALSE, <<>>, indentDepth)
    ELSE One({
        IF subsectionType.threw THEN Decoded(TRUE, <<>>, indentDepth)
        ELSE One({
            IF numSubsectionBytes.threw THEN Decoded(TRUE, <<>>, indentDepth)
            ELSE One({
                IF bytes.threw THEN Decoded(TRUE, <<>>, indentDepth)
                ELSE One({
                    IF done.threw THEN done
                    ELSE Then(done.out,
                              linkingSubsections(bytes.stream, m, names, done.indentDepth)) :
                        done \in {subsection(subsectionType.value,
                                             MemoryInputStream(bytes.value),
                                             m, names, indentDepth)}}) :
                    bytes \in {advance(numSubsectionBytes.stream,
                                       numSubsectionBytes.value)}}) :
                numSubsectionBytes \in {serializeVarUInt32(subsectionType.stream)}}) :
            subsectionType \in {serializeNativeValue(stream)}})

\* catch(FatalSerializationException): while(indentDepth > 1) a dedent.
closeIndents(indentDepth) ==
    Flatten([i \in 1..(indentDepth - 1) |-> DEDENT_STRING])

\* catch(FatalSerializationException): the marker, then the dedents.
catchFatal(string, indentDepth) ==
    [string |-> string \o <<"\n", "Fatal serialization exception!">>
                    \o closeIndents(indentDepth),
     indentDepth |-> IF indentDepth > 1 THEN 1 ELSE indentDepth]

\* The body of printLinkingSection up to wavmAssert(indentDepth == 1): the
\* local string and indentDepth there, whether the try block threw, the
\* string and indentDepth the throw left, and whether the process ended in
\* a fault.
decodeLinkingSection(m, names, section) ==
    LET open == <<"\n", "(; linking section:">> \o INDENT_STRING
        result(threw, fault, thrown, indentDepth) ==
            [threw |-> threw, fault |-> fault,
             thrown |-> [string |-> thrown, indentDepth |-> indentDepth],
             atAssert |-> IF threw THEN catchFatal(thrown, indentDepth)
                          ELSE [string |-> thrown, indentDepth |-> indentDepth]]
    IN One({
        IF version.threw THEN result(TRUE, FALSE, open, 1)
        ELSE One({result(subsections.threw, subsections.fault,
                         open \o <<"\n", "Version: ">> \o to_string(version.value)
                             \o subsections.out,
                         subsections.indentDepth) :
                     subsections \in {linkingSubsections(version.stream, m, names, 1)}}) :
            version \in {serializeVarUInt32(MemoryInputStream(section.data))}})

\* wavmAssert(indentDepth == 1) and the closing of the comment.
printLinkingSection(m, names, section) ==
    decodeLinkingSection(m, names, section).atAssert.string \o DEDENT_STRING \o <<"\n", ";)">>

LinkingName == <<"l", "i", "n", "k", "i", "n", "g">>

NameName == <<"n", "a", "m", "e">>

printUserSections(m, names) ==
    Flatten([i \in 1..Len(m.userSections) |->
        LET userSection == m.userSections[i]
        IN IF userSection.name = LinkingName
           THEN printLinkingSection(m, names, userSection)
           ELSE IF userSection.name # NameName
           THEN <<"\n", "(; User section ", " \"">>
                    \o escapeString(userSection.name, Len(userSection.name))
                    \o <<"\":">>
                    \o printDataLines(userSection.data)
                    \o <<"\n", ";)">>
           ELSE <<>>])

printModule_DefsFirst(m, names) ==
    ScopedTag("module",
        printTypes(m, names)
            \o printMemoryDefs(m, names)
            \o printTableDefs(m, names)
            \o printGlobalDefs(m, names)
            \o printExceptionTypeDefs(m, names)
            \o printFunctionDefs(m, names)
            \o printImports(m, names)
            \o printExports(m, names)
            \o printTableSegments(m, names)
            \o printDataSegments(m, names)
            \o printStart(m, names)
            \o printUserSections(m, names))

printModule(m, names) ==
    ScopedTag("module",
        printTypes(m, names)
            \o printImports(m, names)
            \o printExports(m, names)
            \o printMemoryDefs(m, names)
            \o printTableDefs(m, names)
            \o printGlobalDefs(m, names)
            \o printExceptionTypeDefs(m, names)
            \o printTableSegments(m, names)
            \o printDataSegments(m, names)
            \o printStart(m, names)
            \o printFunctionDefs(m, names)
            \o printUserSections(m, names))

\* ------------------------------------------------------------------------
\* The values of the variables a specification does not use
\* ------------------------------------------------------------------------
IdleIndent == scan = ExpandStart(<<>>)

IdlePrint ==
    /\ module = <<>>
    /\ pcP = <<>>
    /\ ctxString = <<>>
    /\ ctxNames = <<>>
    /\ ctxScope = <<>>
    /\ outputs = {}
    /\ numRenders = 0

IdleBody ==
    /\ fctx = <<>>
    /\ pcB = "constructed"
    /\ decoded = <<>>
    /\ openLabels = <<>>

\* A build whose shifts mask their count and whose memory behind a vector
\* of names holds an empty name.
IdleLinking ==
    /\ undefined = [shift |-> "masked", faults |-> FALSE, beyond |-> <<>>]
    /\ linkingSection = <<>>
    /\ pcL = "given"
    /\ linked = <<>>

IdleTypes == applied = <<>>

IdleNames ==
    /\ scope = NameScope("$")
    /\ assigned = <<>>

IdleIntern ==
    /\ tupleImpls = <<>>
    /\ tupleSet = {}
    /\ funcImpls = <<>>
    /\ funcSet = {}
    /\ tupleMutex = 0
    /\ funcMutex = 0
    /\ pc = <<>>
    /\ localImpl = <<>>
    /\ issuedTuples = {}
    /\ issuedFuncs = {}
    /\ roundTrips = {}
    /\ numCalls = 0

\* ------------------------------------------------------------------------
\* One NameScope instance fed candidate names
\* ------------------------------------------------------------------------
\* Candidate names fed to one scope: the empty name, a name, the name the
\* scope generates for its first duplicate, and a bare number.
Candidates == {<<>>, Foo, Foo_0, <<"0">>}

InitNames == IdleNames

Map(candidate) ==
    /\ Len(assigned) < MaxNames
    /\ LET r == NameScope_map(scope, candidate)
       IN /\ scope' = r.scope
          /\ assigned' = Append(assigned,
                 [candidate |-> candidate, name |-> r.name, before |-> scope])
    /\ UNCHANGED outsideNames

NextNames == \E c \in Candidates : Map(c)

StartNames == InitNames /\ IdleIntern /\ IdleIndent /\ IdlePrint /\ IdleBody /\ IdleLinking /\ IdleTypes

SpecNames == StartNames /\ [][NextNames]_vars

\* ------------------------------------------------------------------------
\* TypeTuple::getUniqueImpl
\* A registration is up to three steps: the caller builds its local Impl and
\* takes the registry's lock; it looks the Impl up and, on a hit, returns the
\* canonical address; on a miss it installs a copy and returns that.
\* ------------------------------------------------------------------------
InitIntern ==
    /\ tupleImpls = <<>>
    /\ tupleSet = {}
    /\ funcImpls = <<>>
    /\ funcSet = {}
    /\ tupleMutex = 0
    /\ funcMutex = 0
    /\ pc = [t \in Threads |-> "idle"]
    /\ localImpl = [t \in Threads |-> <<>>]
    /\ issuedTuples = {}
    /\ issuedFuncs = {}
    /\ roundTrips = {}
    /\ numCalls = 0

TupleEnter(t, inElems) ==
    /\ pc[t] = "idle"
    /\ numCalls < MaxCalls
    /\ MutexFree(tupleMutex)
    /\ numCalls' = numCalls + 1
    /\ localImpl' = [localImpl EXCEPT ![t] = TypeTuple_Impl(Len(inElems), inElems)]
    /\ tupleMutex' = t
    /\ pc' = [pc EXCEPT ![t] = "tLookup"]
    /\ UNCHANGED <<tupleImpls, tupleSet, funcImpls, funcSet, funcMutex,
                   issuedTuples, issuedFuncs, roundTrips>>
    /\ UNCHANGED outsideIntern

TupleFind(t) ==
    /\ pc[t] = "tLookup"
    /\ LET hit == TupleLookup(localImpl[t])
       IN IF hit = 0
          THEN /\ pc' = [pc EXCEPT ![t] = "tInsert"]
               /\ UNCHANGED <<tupleMutex, issuedTuples, localImpl>>
          ELSE /\ pc' = [pc EXCEPT ![t] = "idle"]
               /\ tupleMutex' = IF tupleMutex = t THEN 0 ELSE tupleMutex
               /\ issuedTuples' = issuedTuples \cup
                      {[elems |-> localImpl[t].elems, handle |-> TypeTuple(hit)]}
               /\ localImpl' = [localImpl EXCEPT ![t] = <<>>]
    /\ UNCHANGED <<tupleImpls, tupleSet, funcImpls, funcSet, funcMutex,
                   issuedFuncs, roundTrips, numCalls>>
    /\ UNCHANGED outsideIntern

TupleInsert(t) ==
    /\ pc[t] = "tInsert"
    /\ tupleImpls' = HeapInstall(tupleImpls, localImpl[t])
    /\ tupleSet' = tupleSet \cup {Len(tupleImpls')}
    /\ tupleMutex' = IF tupleMutex = t THEN 0 ELSE tupleMutex
    /\ issuedTuples' = issuedTuples \cup
           {[elems |-> localImpl[t].elems, handle |-> TypeTuple(Len(tupleImpls'))]}
    /\ localImpl' = [localImpl EXCEPT ![t] = <<>>]
    /\ pc' = [pc EXCEPT ![t] = "idle"]
    /\ UNCHANGED <<funcImpls, funcSet, funcMutex, issuedFuncs, roundTrips, numCalls>>
    /\ UNCHANGED outsideIntern

\* ------------------------------------------------------------------------
\* FunctionType::getUniqueImpl, the same three steps
\* ------------------------------------------------------------------------
FuncEnter(t, inResults, inParams) ==
    /\ pc[t] = "idle"
    /\ numCalls < MaxCalls
    /\ MutexFree(funcMutex)
    /\ numCalls' = numCalls + 1
    /\ localImpl' = [localImpl EXCEPT ![t] = FunctionType_Impl(inResults, inParams)]
    /\ funcMutex' = t
    /\ pc' = [pc EXCEPT ![t] = "fLookup"]
    /\ UNCHANGED <<tupleImpls, tupleSet, funcImpls, funcSet, tupleMutex,
                   issuedTuples, issuedFuncs, roundTrips>>
    /\ UNCHANGED outsideIntern

FuncFind(t) ==
    /\ pc[t] = "fLookup"
    /\ LET hit == FuncLookup(localImpl[t])
       IN IF hit = 0
          THEN /\ pc' = [pc EXCEPT ![t] = "fInsert"]
               /\ UNCHANGED <<funcMutex, issuedFuncs, localImpl>>
          ELSE /\ pc' = [pc EXCEPT ![t] = "idle"]
               /\ funcMutex' = IF funcMutex = t THEN 0 ELSE funcMutex
               /\ issuedFuncs' = issuedFuncs \cup
                      {[results |-> localImpl[t].results,
                        params |-> localImpl[t].params,
                        handle |-> FunctionType(hit)]}
               /\ localImpl' = [localImpl EXCEPT ![t] = <<>>]
    /\ UNCHANGED <<tupleImpls, tupleSet, funcImpls, funcSet, tupleMutex,
                   issuedTuples, roundTrips, numCalls>>
    /\ UNCHANGED outsideIntern

FuncInsert(t) ==
    /\ pc[t] = "fInsert"
    /\ funcImpls' = HeapInstall(funcImpls, localImpl[t])
    /\ funcSet' = funcSet \cup {Len(funcImpls')}
    /\ funcMutex' = IF funcMutex = t THEN 0 ELSE funcMutex
    /\ issuedFuncs' = issuedFuncs \cup
           {[results |-> localImpl[t].results, params |-> localImpl[t].params,
             handle |-> FunctionType(Len(funcImpls'))]}
    /\ localImpl' = [localImpl EXCEPT ![t] = <<>>]
    /\ pc' = [pc EXCEPT ![t] = "idle"]
    /\ UNCHANGED <<tupleImpls, tupleSet, tupleMutex, issuedTuples, roundTrips, numCalls>>
    /\ UNCHANGED outsideIntern

\* A holder of f stores f.getEncoding() and later builds FunctionType(encoding).
EncodeDecode(f) ==
    /\ LET enc == getEncoding(f)
       IN roundTrips' = roundTrips \cup
              {[orig |-> f, enc |-> enc, back |-> FunctionType_fromEncoding(enc)]}
    /\ roundTrips' # roundTrips
    /\ UNCHANGED <<tupleImpls, tupleSet, funcImpls, funcSet, tupleMutex, funcMutex,
                   pc, localImpl, issuedTuples, issuedFuncs, numCalls>>
    /\ UNCHANGED outsideIntern

NextIntern ==
    \/ \E t \in Threads, e \in TupleInputs : TupleEnter(t, e)
    \/ \E t \in Threads : TupleFind(t)
    \/ \E t \in Threads : TupleInsert(t)
    \/ \E t \in Threads, r \in HeldTuples, p \in HeldTuples : FuncEnter(t, r, p)
    \/ \E t \in Threads : FuncFind(t)
    \/ \E t \in Threads : FuncInsert(t)
    \/ \E f \in HeldFuncs : EncodeDecode(f)

StartIntern == InitIntern /\ IdleNames /\ IdleIndent /\ IdlePrint /\ IdleBody /\ IdleLinking /\ IdleTypes

SpecIntern == StartIntern /\ [][NextIntern]_vars

\* ------------------------------------------------------------------------
\* expandIndentation on one buffer, one loop iteration per step
\* ------------------------------------------------------------------------
IndentAlphabet == {"a", "\n", "xE0", "x01", "x02"}

Buffers == UNION {[1..n -> IndentAlphabet] : n \in 0..MaxBuf}

InitIndent == \E inString \in Buffers : scan = ExpandStart(inString)

ScanStep ==
    /\ scan.status = "scanning"
    /\ scan' = ExpandStep(scan)
    /\ UNCHANGED outsideIndent

NextIndent == ScanStep

StartIndent == InitIndent /\ IdleIntern /\ IdleNames /\ IdlePrint /\ IdleBody /\ IdleLinking /\ IdleTypes

SpecIndent == StartIndent /\ [][NextIndent]_vars

\* ------------------------------------------------------------------------
\* WAST::print on one module, by callers that run side by side and again
\* ------------------------------------------------------------------------
Kinds == <<"type", "table", "memory", "global", "function", "exceptionType">>

KindIndex(kind) == CHOOSE i \in DOMAIN Kinds : Kinds[i] = kind

\* A declaration of the module: its kind, the name getDisassemblyNames gives
\* it and, for a type, which of the two registered signatures it is.
DeclOptions ==
    {d \in [kind : {Kinds[i] : i \in DOMAIN Kinds}, name : {<<>>, Foo}, sig : {1, 2}] :
        d.kind # "type" => d.sig = 1}

\* Declarations come grouped by kind; a function needs a type to refer to.
ModuleDecls ==
    {d \in UNION {[1..n -> DeclOptions] : n \in 0..MaxDecls} :
        /\ \A i \in 1..(Len(d) - 1) : KindIndex(d[i].kind) <= KindIndex(d[i + 1].kind)
        /\ (\E i \in DOMAIN d : d[i].kind = "function")
               => (\E i \in DOMAIN d : d[i].kind = "type")}

OfKind(decls, kind) == SelectSeq(decls, LAMBDA d : d.kind = kind)

NamesOfKind(decls, kind) ==
    [i \in 1..Len(OfKind(decls, kind)) |-> OfKind(decls, kind)[i].name]

\* The kinds an export can have, and the import kind of each.
ExportKinds == <<"function", "table", "memory", "global", "exceptionType">>

ImportKindOf(kind) ==
    CASE kind = "function" -> "importFunction"
      [] kind = "table" -> "importTable"
      [] kind = "memory" -> "importMemory"
      [] kind = "global" -> "importGlobal"
      [] kind = "exceptionType" -> "importExceptionType"

\* An import of the module "env" under the declaration's name.
ImportsOf(decls, kind, type) ==
    [i \in 1..Len(OfKind(decls, ImportKindOf(kind))) |->
        [moduleName |-> <<"e", "n", "v">>,
         exportName |-> OfKind(decls, ImportKindOf(kind))[i].name,
         type |-> type]]

\* A subsection of a linking section: its tag, the size of its payload and
\* the payload; and the section's data: the version, then the subsections.
Subsection(tag, payload) == <<tag, Len(payload)>> \o payload

LinkingData(subsections) == <<1>> \o Flatten(subsections)

\* One segment named "S" with alignment 2 and flags 0.
SegmentInfoS == Subsection(segmentInfoTag, <<1, 1, 83, 2, 0>>)

\* The init functions 0 and 7.
InitFuncs07 == Subsection(initFuncsTag, <<2, 0, 7>>)

\* The comdat "C" with flags 0 and two symbols: data segment 3, and one of
\* the unknown kind 9.
ComdatUnknownKind == Subsection(comdatInfoTag, <<1, 1, 67, 0, 2, 0, 3, 9, 0>>)

\* One data symbol "d" with flags 1: index 0, offset 4, size 8.
SymbolTableData == Subsection(symbolTableTag, <<1, 1, 1, 1, 100, 0, 4, 8>>)

\* A subsection with the tag 9, which no LinkingSubsectionType has.
UnknownSubsection == Subsection(9, <<>>)

\* The user sections a declaration of kind "user" can stand for.
UserSectionOptions ==
    <<[name |-> <<"x">>, data |-> <<97, 34, 10, 224>>],
      [name |-> NameName, data |-> <<>>],
      [name |-> LinkingName, data |-> LinkingData(<<SegmentInfoS>>)],
      [name |-> LinkingName, data |-> LinkingData(<<UnknownSubsection, SegmentInfoS>>)],
      [name |-> LinkingName, data |-> LinkingData(<<InitFuncs07, UnknownSubsection>>)],
      [name |-> LinkingName, data |-> LinkingData(<<ComdatUnknownKind, SegmentInfoS>>)],
      [name |-> LinkingName, data |-> LinkingData(<<SymbolTableData>>)],
      [name |-> LinkingName, data |-> <<1, 5, 9, 1>>]>>

\* The module a list of declarations stands for. Every function has type
\* index 0, no locals besides its parameters and the body "end"; segments
\* and exports refer to index 0 of their namespace.
ModuleOf(decls) ==
    LET functionNames(kind) ==
            [i \in 1..Len(OfKind(decls, kind)) |->
                [name |-> OfKind(decls, kind)[i].name,
                 locals |-> IF kind = "function"
                            THEN [j \in 1..(OfKind(decls, "type")[1].sig - 1) |-> Foo]
                            ELSE <<>>,
                 labels |-> <<>>]]
        tableType == [elementType |-> "anyfunc", isShared |-> FALSE,
                      size |-> [min |-> 0, max |-> UINT64_MAX]]
        memoryType == [isShared |-> TRUE, size |-> [min |-> 1, max |-> 2]]
        globalType == [valueType |-> "i32", isMutable |-> TRUE]
        exceptionType == [params |-> TypeTuple(2)]
        numFunctions == Len(OfKind(decls, "importFunction")) + Len(OfKind(decls, "function"))
    IN
    [types |-> [i \in 1..Len(OfKind(decls, "type")) |->
                    FunctionType(OfKind(decls, "type")[i].sig)],
     tables |-> [imports |-> ImportsOf(decls, "table", tableType),
                 defs |-> [i \in 1..Len(OfKind(decls, "table")) |-> [type |-> tableType]]],
     memories |-> [imports |-> ImportsOf(decls, "memory", memoryType),
                   defs |-> [i \in 1..Len(OfKind(decls, "memory")) |->
                                [type |-> memoryType]]],
     globals |-> [imports |-> ImportsOf(decls, "global", globalType),
                  defs |-> [i \in 1..Len(OfKind(decls, "global")) |->
                    [type |-> globalType,
                     initializer |-> [type |-> "i32_const", i32 |-> 0]]]],
     exceptionTypes |-> [imports |-> ImportsOf(decls, "exceptionType", exceptionType),
                         defs |-> [i \in 1..Len(OfKind(decls, "exceptionType")) |->
                                      [type |-> exceptionType]]],
     functions |-> [imports |-> ImportsOf(decls, "function", [index |-> 0]),
                    defs |-> [i \in 1..Len(OfKind(decls, "function")) |->
                    [type |-> [index |-> 0],
                     nonParameterLocalTypes |-> <<>>,
                     branchTables |-> <<>>,
                     code |-> <<[name |-> "end"]>>]]],
     exports |-> [i \in 1..Len(OfKind(decls, "export")) |->
                    [name |-> OfKind(decls, "export")[i].name,
                     kind |-> ExportKinds[OfKind(decls, "export")[i].sig],
                     index |-> 0]],
     tableSegments |-> [i \in 1..Len(OfKind(decls, "elem")) |->
                    [tableIndex |-> 0,
                     baseOffset |-> [type |-> "i32_const", i32 |-> 0],
                     indices |-> [k \in 1..numFunctions |-> k - 1]]],
     dataSegments |-> [i \in 1..Len(OfKind(decls, "data")) |->
                    [memoryIndex |-> 0,
                     baseOffset |-> [type |-> "i32_const", i32 |-> 0],
                     data |-> <<97, 34, 10, 224>>]],
     startFunctionIndex |-> IF OfKind(decls, "start") # <<>> THEN 0 ELSE UINTPTR_MAX,
     userSections |-> [i \in 1..Len(OfKind(decls, "user")) |->
                          UserSectionOptions[OfKind(decls, "user")[i].sig]],
     disassemblyNames |->
         [types |-> NamesOfKind(decls, "type"),
          tables |-> NamesOfKind(decls, "importTable") \o NamesOfKind(decls, "table"),
          memories |-> NamesOfKind(decls, "importMemory") \o NamesOfKind(decls, "memory"),
          globals |-> NamesOfKind(decls, "importGlobal") \o NamesOfKind(decls, "global"),
          functions |-> functionNames("importFunction") \o functionNames("function"),
          exceptionTypes |-> NamesOfKind(decls, "importExceptionType")
                                 \o NamesOfKind(decls, "exceptionType")]]

\* Two callers of WAST::print on the same module, running side by side.
Callers == {"a", "b"}

\* The registries as loading the module left them: the tuples () and (i32),
\* the function types ()->() and (i32)->(i32).
InitPrint ==
    /\ tupleImpls = <<TypeTuple_Impl(0, <<>>), TypeTuple_Impl(1, <<"i32">>)>>
    /\ tupleSet = {1, 2}
    /\ funcImpls = <<FunctionType_Impl(TypeTuple(1), TypeTuple(1)),
                     FunctionType_Impl(TypeTuple(2), TypeTuple(2))>>
    /\ funcSet = {1, 2}
    /\ tupleMutex = 0
    /\ funcMutex = 0
    /\ pc = [t \in Threads |-> "idle"]
    /\ localImpl = [t \in Threads |-> <<>>]
    /\ issuedTuples = {}
    /\ issuedFuncs = {}
    /\ roundTrips = {}
    /\ numCalls = MaxCalls - 1
    /\ \E decls \in ModuleDecls : module = ModuleOf(decls)
    /\ pcP = [t \in Callers |-> "idle"]
    /\ ctxString = [t \in Callers |-> <<>>]
    /\ ctxNames = [t \in Callers |-> <<>>]
    /\ ctxScope = [t \in Callers |-> NameScope("$")]
    /\ outputs = {}
    /\ numRenders = 0

globalNameScope_Static(t) == ctxScope[t]

\* NameScope globalNameScope('$', numGlobalNames): a new scope for each context.
globalNameScope(t) == NameScope("$")

\* std::string string; ModulePrintContext context(module, string);
Construct(t) ==
    /\ pcP[t] = "idle"
    /\ numRenders < MaxRenders
    /\ numRenders' = numRenders + 1
    /\ ctxString' = [ctxString EXCEPT ![t] = <<>>]
    /\ LET context == ModulePrintContext(globalNameScope(t), getDisassemblyNames(module))
       IN /\ ctxNames' = [ctxNames EXCEPT ![t] = context.names]
          /\ ctxScope' = [ctxScope EXCEPT ![t] = context.scope]
    /\ pcP' = [pcP EXCEPT ![t] = "context"]
    /\ UNCHANGED <<module, outputs>>
    /\ UNCHANGED outsidePrint

\* context.printModule();
PrintModule(t) ==
    /\ pcP[t] = "context"
    /\ ctxString' = [ctxString EXCEPT ![t] = @ \o printModule(module, ctxNames[t])]
    /\ pcP' = [pcP EXCEPT ![t] = "printed"]
    /\ UNCHANGED <<module, ctxNames, ctxScope, outputs, numRenders>>
    /\ UNCHANGED outsidePrint

\* return expandIndentation(std::move(string)); a fatal error returns nothing.
Return(t) ==
    /\ pcP[t] = "printed"
    /\ LET sc == expandIndentation(ctxString[t])
       IN IF sc.status = "returned"
          THEN /\ outputs' = outputs \cup {sc.result}
               /\ pcP' = [pcP EXCEPT ![t] = "idle"]
          ELSE /\ outputs' = outputs
               /\ pcP' = [pcP EXCEPT ![t] = "fatal"]
    /\ UNCHANGED <<module, ctxString, ctxNames, ctxScope, numRenders>>
    /\ UNCHANGED outsidePrint

\* Tuples another thread of the process interns while the renders run: one
\* that is registered already and one that is new.
InternedMeanwhile == {<<"i32">>, <<"i64">>}

NextPrint ==
    \/ \E inElems \in InternedMeanwhile : TupleEnter(1, inElems)
    \/ TupleFind(1)
    \/ TupleInsert(1)
    \/ \E t \in Callers : Construct(t)
    \/ \E t \in Callers : PrintModule(t)
    \/ \E t \in Callers : Return(t)

StartPrint == InitPrint /\ IdleNames /\ IdleIndent /\ IdleBody /\ IdleLinking /\ IdleTypes

SpecPrint == StartPrint /\ [][NextPrint]_vars

\* ------------------------------------------------------------------------
\* WAST::print on one module with declarations of every group, by one caller
\* ------------------------------------------------------------------------
ItemKinds ==
    <<"type", "importFunction", "importTable", "importMemory", "importGlobal",
      "importExceptionType", "export", "memory", "table", "global", "exceptionType",
      "elem", "data", "start", "function", "user">>

ItemKindIndex(kind) == CHOOSE i \in DOMAIN ItemKinds : ItemKinds[i] = kind

\* A declaration: its kind, its name and, for an export, the kind exported
\* and, for a user section, which of UserSectionOptions it is.
ItemOptions ==
    {d \in [kind : {ItemKinds[i] : i \in DOMAIN ItemKinds},
            name : {Foo},
            sig : 1..Len(UserSectionOptions)] :
        /\ d.kind = "export" => d.sig \in DOMAIN ExportKinds
        /\ d.kind \notin {"export", "user"} => d.sig = 1}

\* How many entries a namespace of the module has.
NumOfKind(d, kind) == Len(OfKind(d, ImportKindOf(kind))) + Len(OfKind(d, kind))

\* Declarations come grouped by kind and every reference has a target: a
\* function its type, an export its object, a segment its table or memory,
\* the start function a function.
ModuleItems ==
    {d \in UNION {[1..n -> ItemOptions] : n \in 0..MaxItems} :
        /\ \A i \in 1..(Len(d) - 1) :
               ItemKindIndex(d[i].kind) <= ItemKindIndex(d[i + 1].kind)
        /\ NumOfKind(d, "function") > 0 => OfKind(d, "type") # <<>>
        /\ \A i \in DOMAIN d :
               d[i].kind = "export" => NumOfKind(d, ExportKinds[d[i].sig]) > 0
        /\ OfKind(d, "elem") # <<>> => NumOfKind(d, "table") > 0
        /\ OfKind(d, "data") # <<>> => NumOfKind(d, "memory") > 0
        /\ OfKind(d, "start") # <<>> => NumOfKind(d, "function") > 0
        /\ Len(OfKind(d, "start")) <= 1}

InitModule ==
    /\ tupleImpls = <<TypeTuple_Impl(0, <<>>), TypeTuple_Impl(1, <<"i32">>)>>
    /\ tupleSet = {1, 2}
    /\ funcImpls = <<FunctionType_Impl(TypeTuple(1), TypeTuple(1)),
                     FunctionType_Impl(TypeTuple(2), TypeTuple(2))>>
    /\ funcSet = {1, 2}
    /\ tupleMutex = 0
    /\ funcMutex = 0
    /\ pc = [t \in Threads |-> "idle"]
    /\ localImpl = [t \in Threads |-> <<>>]
    /\ issuedTuples = {}
    /\ issuedFuncs = {}
    /\ roundTrips = {}
    /\ numCalls = MaxCalls
    /\ \E items \in ModuleItems : module = ModuleOf(items)
    /\ pcP = [t \in Callers |-> "idle"]
    /\ ctxString = [t \in Callers |-> <<>>]
    /\ ctxNames = [t \in Callers |-> <<>>]
    /\ ctxScope = [t \in Callers |-> NameScope("$")]
    /\ outputs = {}
    /\ numRenders = 0

NextModule ==
    \/ Construct("a")
    \/ PrintModule("a")
    \/ Return("a")

StartModule == InitModule /\ IdleNames /\ IdleIndent /\ IdleBody /\ IdleLinking /\ IdleTypes

SpecModule == StartModule /\ [][NextModule]_vars

\* ------------------------------------------------------------------------
\* printFunctionBody on one function, the decoder giving out one operator
\* at a time
\* ------------------------------------------------------------------------
\* A module with the type (i32)->(i32), the function "foo" and the exception
\* type "e". The function has the branch tables [0] and [1, 0], and the name
\* section calls its first label "block".
BodyModule ==
    LET m == ModuleOf(<<[kind |-> "type", name |-> Foo, sig |-> 2],
                        [kind |-> "function", name |-> Foo, sig |-> 1],
                        [kind |-> "exceptionType", name |-> <<"e">>, sig |-> 1]>>)
    IN [m EXCEPT !.functions.defs[1].branchTables = <<<<0>>, <<1, 0>>>>,
                 !.disassemblyNames.functions[1].labels = <<BlockId>>]

NoResult == [format |-> "noParametersOrResult"]

TypeIndex0 == [format |-> "functionType", index |-> 0]

\* The operators the decoder can give out, with their immediates.
Operators ==
    <<[name |-> "block", imm |-> [type |-> NoResult]],
      [name |-> "loop", imm |-> [type |-> TypeIndex0]],
      [name |-> "if", imm |-> [type |-> NoResult]],
      [name |-> "else"],
      [name |-> "end"],
      [name |-> "try", imm |-> [type |-> NoResult]],
      [name |-> "catch", imm |-> [exceptionTypeIndex |-> 0]],
      [name |-> "catch_all"],
      [name |-> "br", imm |-> [targetDepth |-> 0]],
      [name |-> "br", imm |-> [targetDepth |-> 1]],
      [name |-> "br_if", imm |-> [targetDepth |-> 0]],
      [name |-> "br_table", imm |-> [branchTableIndex |-> 1, defaultTargetDepth |-> 0]]>>

\* The depths a branch operator names.
TargetDepths(ctx, op) ==
    CASE op.name \in {"br", "br_if"} -> {op.imm.targetDepth}
      [] op.name = "br_table" ->
             LET targetDepths == ctx.functionDef.branchTables[op.imm.branchTableIndex + 1]
             IN {targetDepths[i] : i \in DOMAIN targetDepths} \cup {op.imm.defaultTargetDepth}
      [] OTHER -> {}

\* The text a handler appended.
Appended(before, after) == SubSeq(after.string, Len(before.string) + 1, Len(after.string))

\* The label found in the text an opening operator appended: what follows
\* the keyword and a blank, up to the signature, the indent marker or the
\* end of the text.
PrintedLabel(text) ==
    IF Len(text) >= 3 /\ text[3] = " "
    THEN LET stops == {k \in 4..Len(text) : text[k] \in {"(", "xE0"}} \cup {Len(text) + 1}
             stop == CHOOSE k \in stops : \A j \in stops : k <= j
         IN SubSeq(text, 4, stop - 1)
    ELSE <<>>

\* What is known of the frames after an operator: one entry more when a
\* frame was pushed, one less when a frame was popped.
OpenedAfter(op, before, after) ==
    IF Len(after.controlStack) > Len(before.controlStack)
    THEN Append(openLabels, [op |-> op.name, printed |-> PrintedLabel(Appended(before, after))])
    ELSE IF Len(after.controlStack) < Len(before.controlStack)
         THEN SubSeq(openLabels, 1, Len(openLabels) - 1)
         ELSE openLabels

InitBody ==
    /\ tupleImpls = <<TypeTuple_Impl(0, <<>>), TypeTuple_Impl(1, <<"i32">>)>>
    /\ tupleSet = {1, 2}
    /\ funcImpls = <<FunctionType_Impl(TypeTuple(1), TypeTuple(1)),
                     FunctionType_Impl(TypeTuple(2), TypeTuple(2))>>
    /\ funcSet = {1, 2}
    /\ tupleMutex = 0
    /\ funcMutex = 0
    /\ pc = [t \in Threads |-> "idle"]
    /\ localImpl = [t \in Threads |-> <<>>]
    /\ issuedTuples = {}
    /\ issuedFuncs = {}
    /\ roundTrips = {}
    /\ numCalls = MaxCalls
    /\ fctx = FunctionPrintContext(
                  BodyModule,
                  ModulePrintContext(NameScope("$"), getDisassemblyNames(BodyModule)).names,
                  0)
    /\ pcB = "constructed"
    /\ decoded = <<>>
    /\ openLabels = <<>>

\* pushControlStack(ControlContext::Type::function, ""); string += DEDENT_STRING;
EnterBody ==
    /\ pcB = "constructed"
    /\ fctx' = enterFunctionBody(fctx)
    /\ pcB' = "decoding"
    /\ openLabels' = <<[op |-> "function", printed |-> <<>>]>>
    /\ UNCHANGED decoded
    /\ UNCHANGED outsideBody

\* One turn of the decode loop. The code is validated: a branch names a
\* frame of the stack.
DecodeOp(op) ==
    /\ pcB = "decoding"
    /\ fctx.controlStack # <<>>
    /\ Len(decoded) < MaxOps
    /\ \A depth \in TargetDepths(fctx, op) : depth < Len(fctx.controlStack)
    /\ fctx' = decodeOp(fctx, op)
    /\ decoded' = Append(decoded, op)
    /\ openLabels' = OpenedAfter(op, fctx, decodeOp(fctx, op))
    /\ UNCHANGED pcB
    /\ UNCHANGED outsideBody

\* The loop is left when the stack is empty or when the code is used up,
\* which it can be after any operator; string += INDENT_STRING "\n";
LeaveBody ==
    /\ pcB = "decoding"
    /\ fctx' = leaveFunctionBody(fctx)
    /\ pcB' = "returned"
    /\ UNCHANGED <<decoded, openLabels>>
    /\ UNCHANGED outsideBody

NextBody ==
    \/ EnterBody
    \/ \E i \in DOMAIN Operators : DecodeOp(Operators[i])
    \/ LeaveBody

StartBody == InitBody /\ IdleNames /\ IdleIndent /\ IdlePrint /\ IdleLinking /\ IdleTypes

SpecBody == StartBody /\ [][NextBody]_vars

\* ------------------------------------------------------------------------
\* printLinkingSection on one linking section of a module with the imported
\* function "f", the function "foo", the global "foo" and one user section
\* ------------------------------------------------------------------------
LinkingModule ==
    ModuleOf(<<[kind |-> "type", name |-> Foo, sig |-> 1],
               [kind |-> "importFunction", name |-> <<"f">>, sig |-> 1],
               [kind |-> "global", name |-> Foo, sig |-> 1],
               [kind |-> "function", name |-> Foo, sig |-> 1],
               [kind |-> "user", name |-> Foo, sig |-> 1]>>)

\* ModulePrintContext::names of that module.
LinkingNames ==
    ModulePrintContext(NameScope("$"), getDisassemblyNames(LinkingModule)).names

\* Payloads of segment-info subsections: "S" with alignment 2; "S" with the
\* alignments 30, 31, 32 and 35; a segment whose name is the bytes 0xE0 0x01
\* and one whose name is the bytes 0xE0 0x02.
SegmentPayloads ==
    <<<<1, 1, 83, 2, 0>>,
      <<4, 1, 83, 30, 0, 1, 83, 31, 1, 1, 83, 32, 0, 1, 83, 35, 0>>,
      <<1, 2, 224, 1, 0, 0>>,
      <<1, 2, 224, 2, 0, 0>>>>

\* Payloads of init-funcs subsections: the functions 0 and 7; 9, 1 and 0.
InitFuncPayloads == <<<<2, 0, 7>>, <<3, 9, 1, 0>>>>

\* Payloads of comdat-info subsections: "C" with a data segment and the
\* unknown kind 9; "C" with flags 4, the function 0 and the function 5; a
\* comdat with the global 0 and one with the global 3 and a data segment.
ComdatPayloads ==
    <<<<1, 1, 67, 0, 2, 0, 3, 9, 0>>,
      <<1, 1, 67, 4, 2, 1, 0, 1, 5>>,
      <<2, 0, 0, 1, 2, 0, 0, 0, 2, 2, 3, 0, 1>>>>

\* Payloads of symbol-table subsections: a data symbol; a section symbol
\* with the index 5 and one with the index 0; the imported function 0 and
\* the defined function 1 named "f"; the function 7 and a data symbol; the
\* global 4 and the global 0; a symbol of the unknown kind 4.
SymbolPayloads ==
    <<<<1, 1, 1, 1, 100, 0, 4, 8>>,
      <<2, 3, 0, 5, 3, 2, 0>>,
      <<2, 0, 0, 0, 0, 16, 1, 1, 102>>,
      <<2, 0, 0, 7, 1, 102, 1, 0, 0, 0, 0, 0>>,
      <<2, 2, 0, 4, 0, 2, 0, 0, 0>>,
      <<2, 1, 0, 0, 0, 0, 0, 4, 0>>>>

\* The payloads by tag.
Payloads ==
    [tag \in {segmentInfoTag, initFuncsTag, comdatInfoTag, symbolTableTag} |->
        CASE tag = segmentInfoTag -> SegmentPayloads
          [] tag = initFuncsTag -> InitFuncPayloads
          [] tag = comdatInfoTag -> ComdatPayloads
          [] tag = symbolTableTag -> SymbolPayloads]

\* The subsections with a payload above cut at any byte, and the unknown one.
Subsections ==
    UNION {UNION {{Subsection(tag, SubSeq(Payloads[tag][i], 1, k)) :
                       k \in 0..Len(Payloads[tag][i])} :
                  i \in DOMAIN Payloads[tag]} :
              tag \in DOMAIN Payloads}
        \cup {UnknownSubsection}

\* The payload of a comdat-info subsection with the comdat "C", which has
\* one symbol of the given kind and index.
ComdatReference(kind, index) == <<1, 1, 67, 0, 1, kind, index>>

\* The payload of a segment-info subsection with the segment "S", which has
\* the given log2 alignment and the flags 0; and the alignments drawn.
SegmentAligned(alignment) == <<1, 1, 83, alignment, 0>>

Alignments == {0, 1, 2, 30, 31, 32, 33, 63, 64}

\* The init functions 9, 1 and 0, then the section symbols 5 and 0.
SoftInconsistencies ==
    LinkingData(<<Subsection(initFuncsTag, InitFuncPayloads[2]),
                  Subsection(symbolTableTag, SymbolPayloads[2])>>)

\* Bytes that follow the entries inside a payload.
Paddings == {<<0>>, <<83, 5>>}

\* A subsection whose payload is longer than its entries, and the segment
\* "S" behind it.
Padded ==
    UNION {UNION {{LinkingData(<<Subsection(tag, Payloads[tag][i] \o padding),
                                 SegmentInfoS>>) :
                       padding \in Paddings} :
                  i \in DOMAIN Payloads[tag]} :
              tag \in DOMAIN Payloads}

\* Counts of entries that the payload does not hold: 9, 83 and 128.
Counts == {<<9>>, <<83>>, <<128, 1>>}

\* A subsection that declares a count and holds no entry or one entry, and
\* a comdat "C" that declares a count of symbols and holds none.
OverCounted ==
    UNION {{LinkingData(<<Subsection(tag, count)>>),
            LinkingData(<<Subsection(tag, count \o <<0>>)>>),
            LinkingData(<<Subsection(comdatInfoTag, <<1, 1, 67, 0>> \o count)>>)} :
              <<tag, count>> \in (DOMAIN Payloads) \X Counts}

\* The bytes of the short sections: the tags, small counts and a character.
LinkingBytes == {0, 1, 2, 5, 6, 7, 8, 9, 83, 128}

\* The data of the linking sections decoded: one subsection; one subsection
\* and the segment "S" behind it, also with a padded payload; subsections
\* that declare more entries than they hold; such data cut at any byte; and
\* every
\* sequence of up to MaxBytes bytes.
LinkingInputs ==
    LET whole == {LinkingData(<<sub>>) : sub \in Subsections}
                     \cup Padded
                     \cup OverCounted
                     \cup {LinkingData(<<sub, SegmentInfoS>>) : sub \in Subsections}
                     \cup {SoftInconsistencies}
                     \cup {LinkingData(<<Subsection(segmentInfoTag, SegmentAligned(a))>>) :
                               a \in Alignments}
                     \cup {LinkingData(<<Subsection(comdatInfoTag, ComdatReference(kind, index))>>) :
                               <<kind, index>> \in (0..3) \X (0..3)}
    IN whole
           \cup UNION {{SubSeq(data, 1, k) : k \in 0..Len(data)} : data \in whole}
           \cup UNION {[1..n -> LinkingBytes] : n \in 0..MaxBytes}

\* What undefined behaviour can yield: a shift by IntBits or more masks its
\* count or gives zero; a read behind a vector faults, or gives what lies
\* there, an empty name or the name "g".
UndefinedOutcomes ==
    {u \in [shift : {"masked", "zero"}, faults : BOOLEAN, beyond : {<<>>, <<"g">>}] :
        u.faults => u.beyond = <<>>}

InitLinking ==
    /\ undefined \in UndefinedOutcomes
    /\ \E data \in LinkingInputs : linkingSection = [name |-> LinkingName, data |-> data]
    /\ pcL = "given"
    /\ linked = <<>>

\* printLinkingSection(linkingSection): the decode, and the return or the
\* end of the process.
PrintLinkingSection ==
    /\ pcL = "given"
    /\ linked' = decodeLinkingSection(LinkingModule, LinkingNames, linkingSection)
    /\ pcL' = IF linked'.fault THEN "crashed" ELSE "returned"
    /\ UNCHANGED <<undefined, linkingSection>>
    /\ UNCHANGED outsideLinking

NextLinking == PrintLinkingSection

StartLinking ==
    InitLinking /\ IdleIntern /\ IdleNames /\ IdleIndent /\ IdlePrint /\ IdleBody /\ IdleTypes

SpecLinking == StartLinking /\ [][NextLinking]_vars

\* ------------------------------------------------------------------------
\* The pure functions: one application of one of them to arguments drawn
\* ------------------------------------------------------------------------
\* An application that has not returned yet.
Application(function, args) ==
    [function |-> function, args |-> args, result |-> <<>>, returned |-> FALSE]

\* The strings escaped: every byte, and the pairs of some bytes.
EscapeInputs ==
    {<<CharOfByte(b)>> : b \in ByteValues}
        \cup {<<a, b>> : a, b \in {"a", "\"", "\\", "\n", "x00"}}

\* The constraints drawn: a minimum and a maximum up to MaxSize, or no
\* maximum.
SizeConstraints == [min : 0..MaxSize, max : 0..MaxSize \cup {UINT64_MAX}]

\* The payloads drawn for each kind.
PayloadsOf(kind) ==
    CASE kind = "function" -> {FunctionType(1), FunctionType(2)}
      [] kind = "table" ->
             {[elementType |-> "anyfunc", isShared |-> shared,
               size |-> [min |-> 0, max |-> UINT64_MAX]] : shared \in BOOLEAN}
      [] kind = "memory" ->
             {[isShared |-> shared, size |-> [min |-> 1, max |-> 2]] : shared \in BOOLEAN}
      [] kind = "global" -> {[valueType |-> "i32", isMutable |-> mutable] : mutable \in BOOLEAN}
      [] kind = "exceptionType" -> {[params |-> TypeTuple(1)], [params |-> TypeTuple(2)]}

InitTypes ==
    \/ applied = Application("ObjectType", <<"default">>)
    \/ \E inKind \in ObjectKind : applied = Application("ObjectType", <<"kind", inKind>>)
    \/ \E kind \in ObjectKind \ {"invalid"} : \E inPayload \in PayloadsOf(kind) :
           applied = Application("ObjectType", <<"payload", kind, inPayload>>)
    \/ \E string \in EscapeInputs : applied = Application("escapeString", <<string>>)
    \/ \E a, b, c \in SizeConstraints : applied = Application("isSubset", <<a, b, c>>)

\* escapeString(string, numChars)
EscapeString ==
    /\ applied.function = "escapeString"
    /\ ~applied.returned
    /\ applied' = [applied EXCEPT
                      !.result = escapeString(applied.args[1], Len(applied.args[1])),
                      !.returned = TRUE]
    /\ UNCHANGED outsideTypes

\* isSubset(super, sub) for every two of the constraints drawn: the pairs
\* <<i, j>> for which isSubset(args[i], args[j]) is true.
IsSubset ==
    /\ applied.function = "isSubset"
    /\ ~applied.returned
    /\ applied' = [applied EXCEPT
                      !.result = {ij \in (DOMAIN applied.args) \X (DOMAIN applied.args) :
                                     isSubset(applied.args[ij[1]], applied.args[ij[2]])},
                      !.returned = TRUE]
    /\ UNCHANGED outsideTypes

\* One of the constructors of ObjectType.
Construct_ObjectType ==
    /\ applied.function = "ObjectType"
    /\ ~applied.returned
    /\ applied' = [applied EXCEPT
                      !.result =
                          CASE applied.args[1] = "default" -> ObjectType_Default
                            [] applied.args[1] = "kind" -> ObjectType_Kind(applied.args[2])
                            [] applied.args[1] = "payload" ->
                                   ObjectType_Payload(applied.args[2], applied.args[3]),
                      !.returned = TRUE]
    /\ UNCHANGED outsideTypes

\* One of the accessors on the object constructed.
AsType ==
    /\ applied.function = "ObjectType"
    /\ applied.returned
    /\ \E kind \in ObjectKind \ {"invalid"} : \E indeterminate \in PayloadsOf(kind) :
           applied' = [function |-> "asType",
                       args |-> <<kind, applied.result>>,
                       result |-> asType(kind, applied.result, indeterminate),
                       returned |-> TRUE]
    /\ UNCHANGED outsideTypes

NextTypes ==
    \/ EscapeString
    \/ IsSubset
    \/ Construct_ObjectType
    \/ AsType

StartTypes ==
    InitTypes /\ IdleIntern /\ IdleNames /\ IdleIndent /\ IdlePrint /\ IdleBody /\ IdleLinking

SpecTypes == StartTypes /\ [][NextTypes]_vars

\* ------------------------------------------------------------------------
\* Properties of the interner (SpecIntern)
\* ------------------------------------------------------------------------

\* C1: under every interleaving of registrations the registry never holds
\* two distinct identities with structurally equal contents, and all callers
\* that presented equal content received the same TypeTuple identity.
C1_NoDuplicateIdentities ==
    /\ \A a, b \in tupleSet :
           tupleImpls[a].elems = tupleImpls[b].elems => a = b
    /\ \A x, y \in issuedTuples :
           x.elems = y.elems => TypeTupleEq(x.handle, y.handle)

\* A content that was registered before is being registered again (the call is
\* in its lookup step) while the other thread is inside a registration too.
C1_Witness ==
    \E t \in Threads, u \in Threads, x \in issuedTuples :
        /\ t # u
        /\ pc[t] = "tLookup"
        /\ localImpl[t].elems = x.elems
        /\ pc[u] # "idle"

\* C2: two TypeTuple handles compare equal exactly when their sequences have
\* the same length and the same element at every position, also when the
\* structural hashes of two different sequences are equal.
C2_IdentityIffSameSequence ==
    \A x, y \in issuedTuples :
        TypeTupleEq(x.handle, y.handle)
            <=> /\ Len(x.elems) = Len(y.elems)
                /\ \A i \in 1..Len(x.elems) : x.elems[i] = y.elems[i]

\* Two different sequences with equal hashes have both been registered.
C2_Witness ==
    \E x, y \in issuedTuples :
        /\ x.elems # y.elems
        /\ TypeTuple_getHash(x.handle) = TypeTuple_getHash(y.handle)

\* C3: two FunctionType handles compare equal exactly when their results are
\* the same identity and their params are the same identity; the handle's
\* results and params are the tuples it was built from, in that order.
C3_FunctionIdentityIffSamePair ==
    /\ \A f, g \in issuedFuncs :
           FunctionTypeEq(f.handle, g.handle)
               <=> /\ TypeTupleEq(f.results, g.results)
                   /\ TypeTupleEq(f.params, g.params)
    /\ \A f \in issuedFuncs :
           /\ TypeTupleEq(FunctionType_results(f.handle), f.results)
           /\ TypeTupleEq(FunctionType_params(f.handle), f.params)

\* FunctionType(results=A, params=B) and FunctionType(results=B, params=A)
\* have both been returned, for distinct A and B, and their hashes are equal.
C3_Witness ==
    \E f, g \in issuedFuncs :
        /\ ~TypeTupleEq(f.results, f.params)
        /\ TypeTupleEq(f.results, g.params)
        /\ TypeTupleEq(f.params, g.results)
        /\ FunctionType_getHash(f.handle) = FunctionType_getHash(g.handle)

C5_Kept ==
    /\ \A a \in DOMAIN tupleImpls :
           a \in DOMAIN tupleImpls' /\ tupleImpls'[a] = tupleImpls[a]
    /\ \A a \in DOMAIN funcImpls :
           a \in DOMAIN funcImpls' /\ funcImpls'[a] = funcImpls[a]
    /\ tupleSet \subseteq tupleSet'
    /\ funcSet \subseteq funcSet'
    /\ \A x \in issuedTuples :
           /\ x.handle.impl \in tupleSet'
           /\ tupleImpls'[x.handle.impl].elems = x.elems
           /\ tupleImpls'[x.handle.impl].hash = HashElems(x.elems)
    /\ \A f \in issuedFuncs :
           /\ f.handle.impl \in funcSet'
           /\ funcImpls'[f.handle.impl].results = f.results
           /\ funcImpls'[f.handle.impl].params = f.params

C5_RegistryAppendOnly == [][C5_Kept]_vars

\* A registration has installed a new entry next to entries returned earlier.
C5_Witness ==
    /\ Cardinality(tupleSet) >= 2
    /\ Cardinality(funcSet) >= 2
    /\ Cardinality(issuedTuples) >= 2
    /\ Cardinality(issuedFuncs) >= 2

\* ------------------------------------------------------------------------
\* Properties of NameScope (SpecNames)
\* ------------------------------------------------------------------------
\* C6: the names one NameScope assigned are pairwise distinct and each starts
\* with the scope's sigil, whatever the candidates were.
C6_NamesDistinctAndSigiled ==
    /\ \A i, j \in 1..Len(assigned) :
           i # j => assigned[i].name # assigned[j].name
    /\ \A i \in 1..Len(assigned) :
           /\ Len(assigned[i].name) >= 1
           /\ assigned[i].name[1] = scope.sigil

\* The scope was fed a repeated candidate, an empty candidate and a candidate
\* that equals a name the scope generated earlier.
C6_Witness ==
    \E i, j, k, e \in 1..Len(assigned) :
        /\ i < j /\ j < k
        /\ assigned[i].candidate = Foo
        /\ assigned[j].candidate = Foo
        /\ assigned[j].name = <<"$">> \o Foo_0
        /\ assigned[k].candidate = Foo_0
        /\ assigned[e].candidate = <<>>

\* C7: an unused non-empty candidate is assigned verbatim behind the sigil; a
\* taken or empty candidate is assigned sigil + base + n for the first n, from
\* the candidate's counter upwards, whose name is unused; base is the
\* candidate followed by "_", or empty for the empty candidate.
C7_MapAssignsAsSpecified ==
    /\ \A i \in 1..Len(assigned) :
           LET r == assigned[i]
               taken == r.before.nameSet
               cnt == CounterOf(r.before.nameToUniqueIndexMap, r.candidate)
               base == IF r.candidate = <<>> THEN <<>> ELSE r.candidate \o <<"_">>
           IN IF r.candidate # <<>> /\ r.candidate \notin taken
              THEN r.name = <<"$">> \o r.candidate
              ELSE \E n \in cnt..(cnt + Cardinality(taken)) :
                       /\ r.name = <<"$">> \o base \o to_string(n)
                       /\ (base \o to_string(n)) \notin taken
                       /\ \A m \in cnt..(n - 1) : (base \o to_string(m)) \in taken
    /\ (Len(assigned) >= 2 /\ assigned[1].candidate = Foo
            /\ assigned[2].candidate = Foo)
           => /\ assigned[1].name = <<"$", "f", "o", "o">>
              /\ assigned[2].name = <<"$", "f", "o", "o", "_", "0">>

\* A taken candidate whose counter is 0 was assigned suffix 1, because the
\* name with suffix 0 was in use.
C7_Witness ==
    \E i \in 1..Len(assigned) :
        /\ assigned[i].candidate = Foo
        /\ CounterOf(assigned[i].before.nameToUniqueIndexMap, Foo) = 0
        /\ assigned[i].name = <<"$", "f", "o", "o", "_", "1">>

\* ------------------------------------------------------------------------
\* Properties of expandIndentation (SpecIndent)
\* ------------------------------------------------------------------------

\* C10: the depth counter never goes below zero; a dedent marker met at depth
\* zero makes the call fatal, the depth stays zero, nothing more is appended
\* to the result and the call never returns it.
C10_Step ==
    /\ scan'.indentDepth >= 0
    /\ (/\ scan.status = "scanning"
        /\ scan.next < Len(scan.paddedInput)
        /\ AtMarker(scan, DEDENT_STRING)
        /\ scan.indentDepth = 0)
           => /\ scan'.status = "fatal"
              /\ scan'.indentDepth = 0
              /\ scan'.result = scan.result
    /\ scan.status = "fatal" => scan'.status = "fatal"

C10_NoDedentBelowZero == [][C10_Step]_vars

\* An indent and its dedent were consumed, and then a surplus dedent ended
\* the call.
C10_Witness ==
    /\ scan.status = "fatal"
    /\ scan.paddedInput[1] = "xE0"
    /\ scan.paddedInput[2] = "x01"
    /\ scan.next > 4

\* ------------------------------------------------------------------------
\* Properties of the naming pass and of WAST::print (SpecPrint)
\* ------------------------------------------------------------------------
\* The module-level display names of a context, namespace after namespace.
ModuleLevelNames(names) ==
    names.types \o names.tables \o names.memories \o names.globals
        \o [i \in 1..Len(names.functions) |-> names.functions[i].name]
        \o names.exceptionTypes

\* C8: once a ModulePrintContext is constructed, every module-level display
\* name (types, tables, memories, globals, functions, exception types)
\* starts with the sigil and differs from every other module-level name.
C8_ModuleNamesThroughNameScope ==
    \A t \in Callers :
        pcP[t] # "idle" =>
            LET all == ModuleLevelNames(ctxNames[t])
            IN /\ \A i \in 1..Len(all) : Len(all[i]) >= 1 /\ all[i][1] = "$"
               /\ \A i, j \in 1..Len(all) : i # j => all[i] # all[j]

C11_Input == SubSeq(scan.paddedInput, 1, Len(scan.paddedInput) - 1)

\* The buffer is text and markers: every 0xE0 byte starts a marker.
C11_TextAndMarkers(in) ==
    \A i \in 1..Len(in) :
        in[i] = "xE0" => i < Len(in) /\ in[i + 1] \in {"x01", "x02"}

\* Indent markers minus dedent markers that start before position i.
C11_Depth(in, i) ==
    Cardinality({j \in 1..(i - 1) : j < Len(in) /\ in[j] = "xE0" /\ in[j + 1] = "x01"})
        - Cardinality({j \in 1..(i - 1) : j < Len(in) /\ in[j] = "xE0" /\ in[j + 1] = "x02"})

\* Balanced or surplus: no prefix holds more dedent than indent markers.
C11_NoSurplusDedent(in) == \A i \in 1..(Len(in) + 1) : C11_Depth(in, i) >= 0

\* Position by position: marker bytes give nothing, a newline gives itself
\* and depth x 2 spaces, any other byte gives itself.
C11_Expected(in) ==
    LET piece(i) ==
            IF in[i] = "xE0" \/ (i > 1 /\ in[i - 1] = "xE0") THEN <<>>
            ELSE IF in[i] = "\n"
            THEN <<"\n">> \o [k \in 1..(C11_Depth(in, i) * 2) |-> " "]
            ELSE <<in[i]>>
        f[i \in 0..Len(in)] == IF i = 0 THEN <<>> ELSE f[i - 1] \o piece(i)
    IN f[Len(in)]

\* C11: for a buffer of text and markers in which no prefix has more dedent
\* than indent markers, expandIndentation does not fail, and what it returns
\* is the input without the markers, each newline followed by depth x 2
\* spaces, every other byte unchanged and in order.
C11_ExpandsAsSpecified ==
    (C11_TextAndMarkers(C11_Input) /\ C11_NoSurplusDedent(C11_Input))
        => /\ scan.status # "fatal"
           /\ scan.status = "returned" => scan.result = C11_Expected(C11_Input)

\* A newline at depth 1 between an indent and its dedent was expanded.
C11_Witness ==
    /\ scan.status = "returned"
    /\ C11_Input = <<"xE0", "x01", "\n", "a", "xE0", "x02">>
    /\ scan.result = <<"\n", " ", " ", "a">>

\* ------------------------------------------------------------------------
\* Properties of printModule (SpecModule)
\* ------------------------------------------------------------------------
\* The text the caller of SpecModule has built.
ModuleText == ctxString["a"]

\* The position of the newline before each declaration of the module: a
\* form with one of the declaration tags, or the comment of a user section.
ItemStarts(text) ==
    {i \in 1..(Len(text) - 2) :
        /\ text[i] = "\n"
        /\ \/ /\ text[i + 1] = "("
              /\ text[i + 2] \in {"type", "import", "export", "memory", "table", "global",
                                  "exception_type", "elem", "data", "start", "func"}
           \/ text[i + 1] \in {"(; User section ", "(; linking section:"}}

\* The group of the declaration that starts at i, in the order stated.
GroupRank(text, i) ==
    IF text[i + 1] # "(" THEN 11
    ELSE CASE text[i + 2] = "type" -> 1
           [] text[i + 2] = "import" -> 2
           [] text[i + 2] = "export" -> 3
           [] text[i + 2] \in {"memory", "table"} -> 4
           [] text[i + 2] = "global" -> 5
           [] text[i + 2] = "exception_type" -> 6
           [] text[i + 2] = "elem" -> 7
           [] text[i + 2] = "data" -> 8
           [] text[i + 2] = "start" -> 9
           [] text[i + 2] = "func" -> 10

\* The kind of the import that starts at i: the first kind keyword after it.
ImportKindAt(text, i) ==
    LET kinds == {"func", "table", "memory", "global", "exception_type"}
        at == CHOOSE j \in (i + 3)..Len(text) :
                  /\ text[j] \in kinds
                  /\ \A k \in (i + 3)..(j - 1) : text[k] \notin kinds
    IN text[at]

\* C12: in the text printModule builds, no declaration of a later group
\* comes before one of an earlier group (types, imports, exports, memories
\* and tables, globals, exception types, element segments, data segments,
\* start, functions, user sections), and the imports of one kind are
\* adjacent.
C12_GroupsInFixedOrder ==
    pcP["a"] = "printed" =>
        /\ \A i, j \in ItemStarts(ModuleText) :
               i < j => GroupRank(ModuleText, i) <= GroupRank(ModuleText, j)
        /\ \A i, j, k \in ItemStarts(ModuleText) :
               (/\ i < j /\ j < k
                /\ GroupRank(ModuleText, i) = 2 /\ GroupRank(ModuleText, k) = 2
                /\ ImportKindAt(ModuleText, i) = ImportKindAt(ModuleText, k))
                   => ImportKindAt(ModuleText, j) = ImportKindAt(ModuleText, i)

\* A module with an import, a definition and a user section was printed:
\* three declarations of three groups.
C12_Witness ==
    /\ pcP["a"] = "printed"
    /\ \E i, j, k \in ItemStarts(ModuleText) :
           /\ GroupRank(ModuleText, i) = 2
           /\ GroupRank(ModuleText, j) = 4
           /\ GroupRank(ModuleText, k) = 11

\* ------------------------------------------------------------------------
\* Properties of printFunctionBody (SpecBody)
\* ------------------------------------------------------------------------
\* The names of the operators decoded.
OpNames == [i \in 1..Len(decoded) |-> decoded[i].name]

\* The kinds of the constructs left open by a list of operator names met
\* with the given constructs open, or <<"malformed">>: else needs an if
\* without else on top, catch and catch_all a try or a catch, and nothing
\* follows the end of the function.
RECURSIVE Nesting(_, _)
Nesting(names, open) ==
    IF names = <<>> THEN open
    ELSE IF open = <<>> \/ open = <<"malformed">> THEN <<"malformed">>
    ELSE LET name == Head(names)
             top == open[Len(open)]
             below == SubSeq(open, 1, Len(open) - 1)
         IN CASE name \in {"block", "loop", "if", "try"} ->
                     Nesting(Tail(names), Append(open, name))
              [] name = "else" ->
                     IF top = "if" THEN Nesting(Tail(names), Append(below, "else"))
                     ELSE <<"malformed">>
              [] name \in {"catch", "catch_all"} ->
                     IF top \in {"try", "catch"}
                     THEN Nesting(Tail(names), Append(below, "catch"))
                     ELSE <<"malformed">>
              [] name = "end" -> Nesting(Tail(names), below)
              [] OTHER -> Nesting(Tail(names), open)

\* A well-formed nesting closed by the final end.
WellFormedBody == Nesting(OpNames, <<"function">>) = <<>>

\* Indent markers minus dedent markers among the first n elements of the
\* text the body appended: the depth relative to the depth before the body.
BodyDepth(n) ==
    LET text == fctx.string
    IN Cardinality({j \in 1..(n - 1) : text[j] = "xE0" /\ text[j + 1] = "x01"})
           - Cardinality({j \in 1..(n - 1) : text[j] = "xE0" /\ text[j + 1] = "x02"})

\* C13: when printFunctionBody has returned from a well-formed nesting of
\* block/loop/if(/else)/try(/catch)...end closed by the final end, the depth
\* after the body is the depth before it, and at no point of the body is the
\* depth more than one level below the depth before it.
C13_MarkersBalance ==
    (pcB = "returned" /\ WellFormedBody)
        => /\ BodyDepth(Len(fctx.string)) = 0
           /\ \A n \in 0..Len(fctx.string) : BodyDepth(n) >= -1

\* The body try catch end end was printed.
C13_Witness ==
    /\ pcB = "returned"
    /\ OpNames = <<"try", "catch", "end", "end">>
    /\ WellFormedBody

\* A step of the decode loop, and the operator it decoded.
Decodes == Len(decoded') = Len(decoded) + 1

DecodedOp == decoded'[Len(decoded')]

\* The label an end prints, as the original statement has it: the label
\* printed when the frame was opened.
C14_PrintedAtOpening == openLabels[Len(openLabels)].printed

\* The label an end prints: for a frame opened by block, loop or if the
\* label printed at the opening, for a frame opened by try the text "try",
\* which the opening does not print.
C14_AssignedAtOpening ==
    IF openLabels[Len(openLabels)].op = "try" THEN TryId ELSE C14_PrintedAtOpening

\* The text an end appends when the label of its line is the given one.
C14_EndText(label) ==
    DEDENT_STRING
        \o (IF fctx.controlStack[Len(fctx.controlStack)].type = "function" THEN <<>>
            ELSE <<"\n", "end ;; ">> \o label)

C15_Target(d) ==
    LET k == Len(openLabels) - d
    IN IF fctx.controlStack[k].type = "function" THEN to_string(d)
       ELSE IF openLabels[k].op = "try" THEN TryId
       ELSE openLabels[k].printed

\* The targets of a branch table, the first after a newline and the others
\* after a blank (the tables drawn have fewer than 16 targets).
C15_TableTargets(targetDepths) ==
    Flatten([i \in 1..Len(targetDepths) |->
        (IF i = 1 THEN <<"\n">> ELSE <<" ">>) \o C15_Target(targetDepths[i])])

C16_NoReturnWithOpenFrames ==
    pcB = "returned" => fctx.controlStack = <<>>

\* The kind of the top frame.
TopType == fctx.controlStack[Len(fctx.controlStack)].type

\* C17: an else met while the top frame has another kind than if-then
\* (function, block, loop, if-else, try, catch) changes no frame.
C17_ElseOnlyOnIfThen ==
    [][(Decodes /\ DecodedOp.name = "else" /\ TopType # "ifThen")
           => fctx'.controlStack = fctx.controlStack]_vars

\* C18: a catch or catch_all met while the top frame has another kind than
\* try or catch changes no frame.
C18_CatchOnlyOnTryOrCatch ==
    [][(Decodes /\ DecodedOp.name \in {"catch", "catch_all"}
            /\ TopType \notin {"try_", "catch_"})
           => fctx'.controlStack = fctx.controlStack]_vars

\* C19: a catch of exception type index i appends "catch " and the display
\* name of exception type i, the name its declaration is printed with.
C19_CatchNamesExceptionType ==
    [][(Decodes /\ DecodedOp.name = "catch")
           => Appended(fctx, fctx')
                  = DEDENT_STRING \o <<"\n", "catch ">>
                        \o fctx.names.exceptionTypes[DecodedOp.imm.exceptionTypeIndex + 1]
                        \o INDENT_STRING]_vars

\* ------------------------------------------------------------------------
\* Properties of printLinkingSection (SpecModule)
\* ------------------------------------------------------------------------
\* Where the text reports a subsection tag that is none of the four known.
C20_Markers(text) ==
    {i \in 1..Len(text) : text[i] = "Unknown WASM linking subsection type: "}

\* After the report at i come the digits of the tag, the failure marker and
\* the end of the comment at depth 1, and nothing else.
C20_StopsThere(text, i) ==
    \E j \in (i + 2)..Len(text) :
        /\ \A k \in (i + 1)..(j - 1) : text[k] \in {Digit[d] : d \in DOMAIN Digit}
        /\ j + 5 <= Len(text)
        /\ SubSeq(text, j, j + 5)
               = <<"\n", "Fatal serialization exception!", "xE0", "x02", "\n", ";)">>

\* The linking sections of the module in which the decoder meets the
\* subsection with the unknown tag.
C20_UnknownTagSections ==
    {i \in DOMAIN module.userSections :
        /\ module.userSections[i].name = LinkingName
        /\ module.userSections[i].data
               \in {LinkingData(<<UnknownSubsection, SegmentInfoS>>),
                    LinkingData(<<InitFuncs07, UnknownSubsection>>)}}

\* Where the comment of a user section starts.
C20_Comments(text) ==
    {i \in 1..Len(text) : text[i] \in {"(; User section ", "(; linking section:"}}

\* C20: a linking section with a subsection of unknown tag is rendered up
\* to that subsection, then the report of the tag, the failure marker and
\* the end of the comment, with no later record of the section; every user
\* section of the module still gets its comment, and the render does not
\* end in a fatal error.
C20_UnknownTagEndsSectionOnly ==
    /\ pcP["a"] # "fatal"
    /\ \A i \in C20_Markers(ModuleText) : C20_StopsThere(ModuleText, i)
    /\ pcP["a"] = "printed" =>
           /\ Cardinality(C20_Markers(ModuleText)) = Cardinality(C20_UnknownTagSections)
           /\ Cardinality(C20_Comments(ModuleText))
                  = Cardinality({i \in DOMAIN module.userSections :
                                    module.userSections[i].name # NameName})

\* A module whose first user section is a linking section with the unknown
\* tag before a segment-info subsection, and whose second is the section
\* "x", was printed: the report is in the text, the segments are not, and
\* the comment of "x" follows.
C20_Witness ==
    /\ pcP["a"] = "printed"
    /\ Len(module.userSections) = 2
    /\ module.userSections[1].data = LinkingData(<<UnknownSubsection, SegmentInfoS>>)
    /\ module.userSections[2].name = <<"x">>
    /\ \E i \in C20_Markers(ModuleText) :
           \E j \in (i + 1)..Len(ModuleText) : ModuleText[j] = "(; User section "
    /\ \A i \in 1..Len(ModuleText) : ModuleText[i] # "Segments:"

\* ------------------------------------------------------------------------
\* Properties of printLinkingSection (SpecLinking)
\* ------------------------------------------------------------------------
\* Indent markers minus dedent markers in a text.
MarkerDepth(text) ==
    Cardinality({j \in 1..(Len(text) - 1) : text[j] = "xE0" /\ text[j + 1] = "x01"})
        - Cardinality({j \in 1..(Len(text) - 1) : text[j] = "xE0" /\ text[j + 1] = "x02"})

\* The text printLinkingSection appends to the module's string.
LinkedText == linked.atAssert.string \o DEDENT_STRING \o <<"\n", ";)">>

\* C21: for every linking section decoded, where the decode ended, normally
\* or by a throw at any nesting level, indentDepth is the number of
\* unmatched indent markers of the text so far; at the final assertion
\* indentDepth is 1; and the text appended has as many dedent markers as
\* indent markers.
C21_IndentDepthTracksMarkers ==
    pcL # "given" =>
        /\ MarkerDepth(linked.thrown.string) = linked.thrown.indentDepth
        /\ pcL = "returned" =>
               /\ linked.atAssert.indentDepth = 1
               /\ MarkerDepth(LinkedText) = 0

\* The text before the first subsection.
LinkedHead ==
    <<"\n", "(; linking section:">> \o INDENT_STRING \o <<"\n", "Version: ", "1">>

\* The smaller of two numbers.
Min(a, b) == IF a < b THEN a ELSE b

\* What an init-funcs subsection with the payload p, a count and one byte
\* for each entry that is there, is to give: the lines of the entries that
\* are there, and the end of the record when none is missing.
C22_InitFuncs(p) ==
    LET there == Min(p[1], Len(p) - 1)
        line(i) ==
            IF p[i + 1] < Len(LinkingNames.functions)
            THEN <<"\n", " ">> \o LinkingNames.functions[p[i + 1] + 1].name
            ELSE <<"\n", " <invalid function index ">> \o to_string(p[i + 1]) \o <<">">>
    IN [text |-> <<"\n", "Init funcs:">> \o INDENT_STRING
                     \o Flatten([i \in 1..there |-> line(i)])
                     \o (IF there = p[1] THEN DEDENT_STRING ELSE <<>>),
        complete |-> there = p[1]]

\* The same for a symbol table of section symbols: kind 3, flags and index,
\* three bytes each.
C22_SectionSymbols(p) ==
    LET there == Min(p[1], (Len(p) - 1) \div 3)
        index(i) == p[3 * i + 1]
        line(i) ==
            <<"\n", "section ">>
                \o (IF index(i) < Len(LinkingModule.userSections)
                    THEN LinkingModule.userSections[index(i) + 1].name
                    ELSE <<"*invalid index*">>)
                \o <<" index=">> \o to_string(index(i)) \o symbolFlags(p[3 * i])
    IN [text |-> <<"\n", "Symbols:">> \o INDENT_STRING
                     \o Flatten([i \in 1..there |-> line(i)])
                     \o (IF there = p[1] THEN DEDENT_STRING ELSE <<>>),
        complete |-> there = p[1]]

\* The payloads cut at any byte after the count.
C22_Cuts(payloads) ==
    UNION {{SubSeq(payloads[i], 1, k) : k \in 1..Len(payloads[i])} : i \in DOMAIN payloads}

\* C22: an init-funcs entry with a function index out of range and a
\* section symbol with a section index out of range are rendered with the
\* invalid-index text, and the decode goes on with the next entry: every
\* entry that is in the payload has its line, and the decode throws only
\* when the payload ends before the count is reached.
C22_SoftInconsistenciesGoOn ==
    pcL = "returned" =>
        /\ \A p \in C22_Cuts(InitFuncPayloads) :
               linkingSection.data = LinkingData(<<Subsection(initFuncsTag, p)>>)
                   => /\ linked.thrown.string = LinkedHead \o C22_InitFuncs(p).text
                      /\ linked.threw = ~C22_InitFuncs(p).complete
        /\ \A p \in C22_Cuts(<<SymbolPayloads[2]>>) :
               linkingSection.data = LinkingData(<<Subsection(symbolTableTag, p)>>)
                   => /\ linked.thrown.string = LinkedHead \o C22_SectionSymbols(p).text
                      /\ linked.threw = ~C22_SectionSymbols(p).complete
        /\ linkingSection.data = SoftInconsistencies
               => /\ linked.thrown.string
                         = LinkedHead \o C22_InitFuncs(InitFuncPayloads[2]).text
                               \o C22_SectionSymbols(SymbolPayloads[2]).text
                  /\ ~linked.threw

\* The section with the init functions 9, 1, 0 and the section symbols 5, 0
\* was decoded: both invalid-index texts are there, each with the line of the
\* next entry behind it, and nothing was thrown.
C22_Witness ==
    /\ pcL = "returned"
    /\ linkingSection.data = SoftInconsistencies
    /\ ~linked.threw
    /\ \E i \in 1..Len(LinkedText) :
           /\ LinkedText[i] = " <invalid function index "
           /\ SubSeq(LinkedText, i + 1, i + 4) = <<"9", ">", "\n", " ">>
    /\ \E i \in 1..Len(LinkedText) :
           /\ LinkedText[i] = "*invalid index*"
           /\ SubSeq(LinkedText, i + 1, i + 4) = <<" index=", "5", "\n", "section ">>

\* Whether a text ends with another.
EndsWith(text, tail) ==
    /\ Len(text) >= Len(tail)
    /\ SubSeq(text, Len(text) - Len(tail) + 1, Len(text)) = tail

\* The text of a comdat reference that cannot be rendered, <<>> for one
\* that can: a function or global the names do not have, an unknown kind.
C23_Report(kind, index) ==
    CASE kind = 1 /\ index >= Len(LinkingNames.functions) ->
             <<"function ", "Invalid COMDAT function index ">> \o to_string(index)
      [] kind = 2 /\ index >= Len(LinkingNames.globals) ->
             <<"global ", "Invalid COMDAT global index ">> \o to_string(index)
      [] kind > 2 -> <<"\n", "Unknown comdat kind: ">> \o to_string(kind)
      [] OTHER -> <<>>

\* The end of the text of a decode that threw inside a comdat entry.
C23_Abort ==
    <<"\n", "Fatal serialization exception!">>
        \o DEDENT_STRING \o DEDENT_STRING \o DEDENT_STRING \o <<"\n", ";)">>

\* C23: a comdat reference of kind function or global whose index is not
\* below the number of function or global names, and one of a kind other
\* than data, function or global, ends the decode of the linking section
\* with its report and the failure marker, whatever lies behind the names;
\* every other reference does not.
C23_ComdatReferenceAborts ==
    \A kind \in 0..3, index \in 0..3 :
        (/\ pcL # "given"
         /\ linkingSection.data
                = LinkingData(<<Subsection(comdatInfoTag, ComdatReference(kind, index))>>))
            => /\ pcL = "returned"
               /\ IF C23_Report(kind, index) = <<>> THEN ~linked.threw
                  ELSE /\ linked.threw
                       /\ linked.thrown.indentDepth = 3
                       /\ EndsWith(linked.thrown.string, C23_Report(kind, index))
                       /\ EndsWith(LinkedText, C23_Report(kind, index) \o C23_Abort)
                       /\ \A i \in 1..Len(LinkedText) : LinkedText[i] # "g"

\* The comdat with the function 2 was decoded in a build that reads "g"
\* behind the two function names: the decode threw with the report.
C23_Witness ==
    /\ pcL = "returned"
    /\ undefined.beyond = <<"g">>
    /\ linkingSection.data = LinkingData(<<Subsection(comdatInfoTag, ComdatReference(1, 2))>>)
    /\ linked.threw
    /\ EndsWith(linked.thrown.string, <<"Invalid COMDAT function index ", "2">>)

\* The linking sections whose symbol table has the function symbol 7 or
\* the global symbol 4: the module has two functions and one global.
C24_Inputs ==
    {LinkingData(<<Subsection(symbolTableTag, SymbolPayloads[i])>>) : i \in {4, 5}}

\* C24: a function or global symbol whose index is not below the number of
\* function or global names is a scoped failure: the decode returns, it
\* threw before any name was read at that index, and the text of the
\* section ends with the failure marker.
C24_SymbolBeyondNamesIsScopedFailure ==
    (pcL # "given" /\ linkingSection.data \in C24_Inputs)
        => /\ pcL = "returned"
           /\ linked.threw
           /\ EndsWith(LinkedText,
                       <<"\n", "Fatal serialization exception!">>
                           \o DEDENT_STRING \o DEDENT_STRING \o <<"\n", ";)">>)

\* The decimal digits of twice the number with the given digits.
TwiceDigits(digits) ==
    LET value(i) == ByteOfChar(digits[i]) - ByteOfChar("0")
        carry(i) == IF i < Len(digits) /\ value(i + 1) >= 5 THEN 1 ELSE 0
        doubled == [i \in 1..Len(digits) |-> Digit[((2 * value(i)) % 10) + carry(i) + 1]]
    IN IF value(1) >= 5 THEN <<"1">> \o doubled ELSE doubled

\* The decimal digits of 2^a.
RECURSIVE PowerOfTwoDigits(_)
PowerOfTwoDigits(a) ==
    IF a = 0 THEN <<"1">>
    ELSE One({TwiceDigits(digits) : digits \in {PowerOfTwoDigits(a - 1)}})

\* C25: a segment-info entry with the log2 alignment a renders
\* "alignment=" with the decimal digits of 2^a, for every a drawn; the
\* segment "S" with a = 2 and flags 0 renders "S alignment=4 flags=0".
C25_AlignmentIsPowerOfTwo ==
    /\ PowerOfTwoDigits(2) = <<"4">>
    /\ \A a \in Alignments :
           (/\ pcL # "given"
            /\ linkingSection.data
                   = LinkingData(<<Subsection(segmentInfoTag, SegmentAligned(a))>>))
               => /\ pcL = "returned"
                  /\ linked.thrown.string
                         = LinkedHead \o <<"\n", "Segments:">> \o INDENT_STRING
                               \o <<"\n", "S", " alignment=">> \o PowerOfTwoDigits(a)
                               \o <<" flags=", "0">> \o DEDENT_STRING

\* With alignments an int shift can hold, the same holds.
C25_SmallAlignments ==
    \A a \in {a \in Alignments : a < IntBits - 1} :
        (/\ pcL # "given"
         /\ linkingSection.data
                = LinkingData(<<Subsection(segmentInfoTag, SegmentAligned(a))>>))
            => linked.thrown.string
                   = LinkedHead \o <<"\n", "Segments:">> \o INDENT_STRING
                         \o <<"\n", "S", " alignment=">> \o PowerOfTwoDigits(a)
                         \o <<" flags=", "0">> \o DEDENT_STRING

\* ------------------------------------------------------------------------
\* Properties of the pure functions (SpecTypes)
\* ------------------------------------------------------------------------
\* A backslash and the two hex digits of a byte value.
HexLower == <<"0", "1", "2", "3", "4", "5", "6", "7", "8", "9", "a", "b", "c", "d", "e", "f">>

C26_Hex(b) == <<"\\", HexLower[(b \div 16) + 1], HexLower[(b % 16) + 1]>>

\* A byte as the claim escapes it, and as the amended claim does.
C26_AllHex(c) ==
    IF ByteOfChar(c) < 32 \/ ByteOfChar(c) > 126 \/ c \in {"\"", "\\"}
    THEN C26_Hex(ByteOfChar(c))
    ELSE <<c>>

C26_Named(c) ==
    CASE c = "\\" -> <<"\\", "\\">>
      [] c = "\"" -> <<"\\", "\"">>
      [] c = "\n" -> <<"\\", "n">>
      [] OTHER -> C26_AllHex(c)

\* C26 as stated: escapeString renders every non-printable byte, every
\* double quote and every backslash as a backslash and the two hex digits of
\* the byte's value, and copies every other byte.
C26_EscapesAsHexPairs ==
    (applied.function = "escapeString" /\ applied.returned)
        => applied.result
               = Flatten([i \in 1..Len(applied.args[1]) |-> C26_AllHex(applied.args[1][i])])

\* C26 amended: escapeString renders a backslash as two backslashes, a
\* double quote as a backslash and the double quote, a newline as a
\* backslash and the letter n, every other non-printable byte as a backslash
\* and the two hex digits of the byte's value, and copies every other byte.
C26_EscapesNamedAndHex ==
    (applied.function = "escapeString" /\ applied.returned)
        => applied.result
               = Flatten([i \in 1..Len(applied.args[1]) |-> C26_Named(applied.args[1][i])])

\* The string of a double quote and the byte 0 was escaped.
C26_Witness ==
    /\ applied.function = "escapeString"
    /\ applied.returned
    /\ applied.args = <<<<"\"", "x00">>>>
    /\ applied.result = <<"\\", "\"", "\\", "0", "0">>

\* Whether a constraint has no maximum.
C27_Unbounded(c) == c.max = UINT64_MAX

\* C27: isSubset(super, sub) is true exactly when sub.min >= super.min and
\* sub.max <= super.max, no maximum being the largest; the relation is
\* reflexive and transitive, every constraint is a subset of {0, unbounded},
\* and an unbounded constraint is a subset only of unbounded ones.
C27_IsSubsetIsRangeInclusion ==
    (applied.function = "isSubset" /\ applied.returned)
        => LET c == applied.args
               sub == applied.result
           IN /\ \A i, j \in DOMAIN c :
                     <<i, j>> \in sub
                         <=> /\ c[j].min >= c[i].min
                             /\ \/ C27_Unbounded(c[i])
                                \/ ~C27_Unbounded(c[j]) /\ c[j].max <= c[i].max
              /\ \A i \in DOMAIN c : <<i, i>> \in sub
              /\ \A i, j, k \in DOMAIN c :
                     (<<i, j>> \in sub /\ <<j, k>> \in sub) => <<i, k>> \in sub
              /\ \A i, j \in DOMAIN c :
                     (c[i] = [min |-> 0, max |-> UINT64_MAX]) => <<i, j>> \in sub
              /\ \A i, j \in DOMAIN c :
                     (<<i, j>> \in sub /\ C27_Unbounded(c[j])) => C27_Unbounded(c[i])

\* isSubset was applied to {0, unbounded}, {1, unbounded} and {1, 2}: each
\* is a subset of the ones before it and of itself, and of no other.
C27_Witness ==
    /\ applied.function = "isSubset"
    /\ applied.returned
    /\ applied.args = <<[min |-> 0, max |-> UINT64_MAX], [min |-> 1, max |-> UINT64_MAX],
                        [min |-> 1, max |-> 2]>>
    /\ applied.result = {<<1, 1>>, <<1, 2>>, <<1, 3>>, <<2, 2>>, <<2, 3>>, <<3, 3>>}

\* C28: every ObjectType a constructor produces has one of the kinds
\* function, table, memory, global, exceptionType and holds the payload of
\* exactly that kind; an accessor gives the object's payload when the kind
\* matches and is an invariant violation otherwise.
C28_ObjectTypeHoldsPayloadOfItsKind ==
    /\ (applied.function = "ObjectType" /\ applied.returned)
           => /\ applied.result.kind \in {"function", "table", "memory", "global",
                                          "exceptionType"}
              /\ applied.result.member = applied.result.kind
    /\ applied.function = "asType"
           => /\ applied.result.violation <=> applied.args[2].kind # applied.args[1]
              /\ ~applied.result.violation
                     => /\ applied.args[2].member = applied.args[1]
                        /\ applied.result.value = applied.args[2].payload

\* The accessors on the objects of the payload constructors do as stated.
C28_PayloadConstructors ==
    (applied.function = "asType" /\ applied.args[2].member # "none")
        => /\ applied.result.violation <=> applied.args[2].kind # applied.args[1]
           /\ ~applied.result.violation => applied.result.value = applied.args[2].payload

\* ------------------------------------------------------------------------
\* The decode loop of printFunctionBody as a whole (SpecBody)
\* ------------------------------------------------------------------------
\* The context printFunctionBody is called on.
C29_Constructed ==
    FunctionPrintContext(
        BodyModule,
        ModulePrintContext(NameScope("$"), getDisassemblyNames(BodyModule)).names,
        0)

\* The context the loop leaves on a code that starts with the operators
\* decoded and goes on with more.
C29_Loop(more) == DecodeOps(enterFunctionBody(C29_Constructed), decoded \o more)

\* The operators that open a frame.
C29_Openers == {i \in DOMAIN Operators : Operators[i].name \in {"block", "loop", "if", "try"}}

\* C29: printFunctionBody stops dispatching operators as soon as the control
\* stack is empty: the loop on a code gives the context of the turns taken,
\* and once the end closing the function frame is decoded, whatever operators
\* follow in the code, the text and the stack are those left by that end;
\* an end that follows is not dispatched.
C29_StopsOnEmptyStack ==
    pcB = "decoding"
        => /\ C29_Loop(<<>>) = fctx
           /\ fctx.controlStack = <<>>
                  => /\ \A i \in C29_Openers : C29_Loop(<<Operators[i]>>) = fctx
                     /\ \A i, j \in DOMAIN Operators :
                            C29_Loop(<<Operators[i], Operators[j]>>) = fctx
                     /\ decoded[Len(decoded)].name = "end"

\* A block and the function frame are closed and the stack is empty.
C29_Witness ==
    /\ pcB = "decoding"
    /\ fctx.controlStack = <<>>
    /\ Len(decoded) = 3
    /\ decoded[1].name = "block"

\* ------------------------------------------------------------------------
\* The labels of block, loop and if (SpecBody)
\* ------------------------------------------------------------------------
C30_Keyword(name) ==
    CASE name = "block" -> BlockId
      [] name = "loop" -> LoopId
      [] name = "if" -> IfId

\* The operators decoded that are a block, a loop or an if, in stream order.
C30_Constructs == SelectSeq(decoded, LAMBDA op : op.name \in {"block", "loop", "if"})

\* The candidate of the k-th construct, k from 0.
C30_Candidate(k) ==
    IF Len(C29_Constructed.labelNames) > k
    THEN C29_Constructed.labelNames[k + 1]
    ELSE C30_Keyword(C30_Constructs[k + 1].name)

\* The label scope after the candidates of the first n constructs went
\* through it, and the name the last of them was given.
RECURSIVE C30_Mapped(_)
C30_Mapped(n) ==
    IF n = 0 THEN [scope |-> NameScope("$"), name |-> <<>>]
    ELSE NameScope_map(C30_Mapped(n - 1).scope, C30_Candidate(n - 1))

\* C30: within one function body the label index starts at 0 and advances by
\* one for each block, loop or if in stream order; the k-th of them takes
\* label k of the name section as its candidate when the function has more
\* than k label names and its keyword otherwise, and the label printed is the
\* candidate as the function's own label scope de-duplicates it.
C30_LabelIndexCountsConstructs ==
    /\ pcB = "constructed" => fctx.labelIndex = 0
    /\ pcB = "decoding"
           => /\ fctx.labelIndex = Len(C30_Constructs)
              /\ fctx.labelNameScope = C30_Mapped(Len(C30_Constructs)).scope
              /\ (decoded # <<>> /\ decoded[Len(decoded)].name \in {"block", "loop", "if"})
                     => /\ openLabels[Len(openLabels)].printed
                               = C30_Mapped(Len(C30_Constructs)).name
                        /\ fctx.controlStack[Len(fctx.controlStack)].labelId
                               = C30_Mapped(Len(C30_Constructs)).name

\* A loop takes the label "block" of the name section; the block after it
\* takes its keyword, which the scope already holds, and is printed $block_0;
\* the if after it takes its keyword.
C30_Witness ==
    /\ pcB = "decoding"
    /\ Len(decoded) = 3
    /\ decoded[1].name = "loop"
    /\ decoded[2].name = "block"
    /\ decoded[3].name = "if"
    /\ fctx.labelIndex = 3
    /\ fctx.controlStack[2].labelId = <<"$">> \o BlockId
    /\ fctx.controlStack[3].labelId = <<"$">> \o BlockId \o <<"_", "0">>
    /\ openLabels[4].printed = <<"$">> \o IfId

\* ------------------------------------------------------------------------
\* The frames of the control stack (SpecBody)
\* ------------------------------------------------------------------------
\* The positions of the frames other than the function frame.
C31_Frames == {i \in DOMAIN fctx.controlStack : fctx.controlStack[i].type # "function"}

\* C31: labels within one function body are collision-free: at every point
\* of the body the frames of the control stack other than the function frame,
\* try and catch frames included, carry pairwise distinct labels.
C31_LabelsPairwiseDistinct ==
    \A i, j \in C31_Frames :
        i # j => fctx.controlStack[i].labelId # fctx.controlStack[j].labelId

\* The frames that block, loop and if pushed carry pairwise distinct labels.
C31_PrintedLabelsDistinct ==
    \A i, j \in C31_Frames :
        (/\ i # j
         /\ openLabels[i].op # "try"
         /\ openLabels[j].op # "try")
            => fctx.controlStack[i].labelId # fctx.controlStack[j].labelId

\* The operators decoded with the given names.
C32_Decoded(names) == SelectSeq(decoded, LAMBDA op : op.name \in names)

\* The constructs opened so far, and the ends decoded so far.
C32_Opened == Len(C32_Decoded({"block", "loop", "if", "try"}))

C32_Ended == Len(C32_Decoded({"end"}))

\* The operators that opened the constructs not yet ended after the first n
\* operators, the innermost last.
RECURSIVE C32_Open(_)
C32_Open(n) ==
    IF n = 0 THEN <<>>
    ELSE LET open == C32_Open(n - 1)
         IN CASE decoded[n].name \in {"block", "loop", "if", "try"} ->
                     Append(open, decoded[n].name)
              [] decoded[n].name = "end" /\ open # <<>> ->
                     SubSeq(open, 1, Len(open) - 1)
              [] OTHER -> open

\* else and catch are applied only to if and try frames.
C32_ElseAndCatchInPlace ==
    \A n \in DOMAIN decoded :
        /\ decoded[n].name = "else"
               => (C32_Open(n - 1) # <<>> /\ C32_Open(n - 1)[Len(C32_Open(n - 1))] = "if")
        /\ decoded[n].name \in {"catch", "catch_all"}
               => (C32_Open(n - 1) # <<>> /\ C32_Open(n - 1)[Len(C32_Open(n - 1))] = "try")

\* The bottom frame is the function frame and no other frame is.
C32_FunctionFrameAtBottom ==
    /\ fctx.controlStack[1].type = "function"
    /\ \A i \in 2..Len(fctx.controlStack) : fctx.controlStack[i].type # "function"

\* C32 as stated: for every body in which else and catch are applied only to
\* if and try frames, at every step of printFunctionBody the control stack
\* size is 1 plus the number of block/loop/if/try constructs opened and not
\* yet ended, the bottom frame is the function frame and no other frame has
\* kind function.
C32_StackSizeAtEveryStep ==
    (pcB = "decoding" /\ C32_ElseAndCatchInPlace)
        => /\ Len(fctx.controlStack) = 1 + Len(C32_Open(Len(decoded)))
           /\ C32_FunctionFrameAtBottom

\* C32, amended: for every such body, at every step of printFunctionBody up
\* to the end that closes the function frame the control stack size is 1
\* plus the number of constructs opened and not yet ended, the bottom frame
\* is the function frame and no other frame has kind function; after that
\* end the control stack is empty.
C32_StackSizeUntilFunctionEnds ==
    (pcB = "decoding" /\ C32_ElseAndCatchInPlace)
        => IF C32_Ended > C32_Opened
           THEN fctx.controlStack = <<>>
           ELSE /\ Len(fctx.controlStack) = 1 + C32_Opened - C32_Ended
                /\ Len(C32_Open(Len(decoded))) = C32_Opened - C32_Ended
                /\ C32_FunctionFrameAtBottom

\* An if with its else and a try with its catch are open.
C32_Witness ==
    /\ pcB = "decoding"
    /\ C32_ElseAndCatchInPlace
    /\ Len(decoded) = 4
    /\ decoded[1].name = "if"
    /\ decoded[2].name = "else"
    /\ decoded[3].name = "try"
    /\ decoded[4].name = "catch"
    /\ Len(fctx.controlStack) = 3

\* ------------------------------------------------------------------------
\* The records of the linking section (SpecLinking)
\* ------------------------------------------------------------------------
\* The records of a section by their declared lengths alone: the tag and
\* the payload of each record that lies within the section, and whether a
\* record's tag, length or declared payload runs past the section's end.
RECURSIVE C33_Records(_)
C33_Records(stream) ==
    IF capacity(stream) = 0 THEN [records |-> <<>>, short |-> FALSE]
    ELSE One({One({
        IF length.threw \/ capacity(length.stream) < length.value
        THEN [records |-> <<>>, short |-> TRUE]
        ELSE One({[records |-> <<[tag |-> tag.value,
                                   payload |-> SubSeq(stream.bytes,
                                                      length.stream.next + 1,
                                                      length.stream.next + length.value)]>>
                                   \o rest.records,
                   short |-> rest.short] :
                     rest \in {C33_Records([length.stream EXCEPT !.next = @ + length.value])}}) :
            length \in {serializeVarUInt32(tag.stream)}}) :
            tag \in {serializeNativeValue(stream)}})

\* The text of the records, each decoded from its own payload and nothing
\* else, up to the first one that aborts.
RECURSIVE C33_Text(_)
C33_Text(records) ==
    IF records = <<>> THEN [threw |-> FALSE, out |-> <<>>]
    ELSE One({
        IF done.threw THEN [threw |-> TRUE, out |-> done.out]
        ELSE One({[threw |-> rest.threw, out |-> done.out \o rest.out] :
                     rest \in {C33_Text(Tail(records))}}) :
            done \in {subsection(Head(records).tag, MemoryInputStream(Head(records).payload),
                                 LinkingModule, LinkingNames, 1)}})

\* The version of the section decoded.
C33_Version == serializeVarUInt32(MemoryInputStream(linkingSection.data))

C33_Framed == C33_Records(C33_Version.stream)

\* C33: after a record of the linking section is handled, decoding resumes
\* at the byte that follows the record's declared payload length, however
\* many bytes of the payload the record's entries consumed: the text is
\* that of the records cut out by their declared lengths, each decoded from
\* its own payload. A declared length that exceeds the bytes left in the
\* section aborts the decode of the section.
C33_ResumesAfterDeclaredLength ==
    (pcL # "given" /\ ~C33_Version.threw)
        => /\ linked.thrown.string
                  = <<"\n", "(; linking section:">> \o INDENT_STRING
                        \o <<"\n", "Version: ">> \o to_string(C33_Version.value)
                        \o C33_Text(C33_Framed.records).out
           /\ linked.threw <=> (C33_Text(C33_Framed.records).threw \/ C33_Framed.short)

\* The init functions 0 and 7 in a payload two bytes longer than they are,
\* and the segment "S" decoded behind it.
C33_Witness ==
    /\ pcL = "returned"
    /\ linkingSection.data
           = LinkingData(<<Subsection(initFuncsTag, InitFuncPayloads[1] \o <<83, 5>>),
                           SegmentInfoS>>)
    /\ ~linked.threw
    /\ Len(C33_Framed.records) = 2
    /\ EndsWith(linked.thrown.string, C33_Text(<<C33_Framed.records[2]>>).out)
    /\ C33_Text(<<C33_Framed.records[2]>>).out # <<>>

\* A declared length that exceeds the bytes left: the section aborts after
\* the records before it.
C33_WitnessShort ==
    /\ pcL = "returned"
    /\ C33_Framed.short
    /\ Len(C33_Framed.records) = 1
    /\ ~C33_Text(C33_Framed.records).threw
    /\ linked.threw

\* ------------------------------------------------------------------------
\* The loops of printLinkingSection (SpecLinking)
\* ------------------------------------------------------------------------
\* The lines of a text: the line of the opening, of the version and of the
\* failure, one line for every subsection the record loop entered, one for
\* every entry an entry loop completed, and the line of an unknown kind. No
\* section drawn holds a newline byte in a name.
C34_Lines(text) == Cardinality({k \in DOMAIN text : text[k] = "\n"})

\* The text the abort handler appended.
C34_Handled ==
    SubSeq(linked.atAssert.string, Len(linked.thrown.string) + 1, Len(linked.atAssert.string))

\* C34: printLinkingSection terminates on every byte sequence, whatever
\* entry counts the records declare: every turn of the record loop and of an
\* entry loop consumes at least one byte of the section or aborts the decode,
\* so the turns completed, each of which prints a line, are no more than the
\* bytes of the section; and the abort handler's loop appends
\* indentDepth - 1 dedents and leaves indentDepth at 1.
C34_LoopsAreBoundedByTheBytes ==
    pcL # "given"
        => /\ C34_Lines(linked.thrown.string) <= 1 + Len(linkingSection.data)
           /\ linked.thrown.indentDepth \in 1..3
           /\ linked.atAssert.indentDepth = 1
           /\ (linked.threw /\ pcL = "returned")
                  => /\ Len(C34_Handled)
                            = 2 + Len(DEDENT_STRING) * (linked.thrown.indentDepth - 1)
                     /\ C34_Lines(C34_Handled) = 1

\* An init-funcs subsection that declares 83 functions and holds none: the
\* first turn of the entry loop aborts and the handler dedents once.
C34_Witness ==
    /\ pcL = "returned"
    /\ linkingSection.data = LinkingData(<<Subsection(initFuncsTag, <<83>>)>>)
    /\ linked.threw
    /\ linked.thrown.indentDepth = 2
    /\ C34_Lines(linked.thrown.string) = 3
    /\ Len(C34_Handled) = 2 + Len(DEDENT_STRING)

====
